---- MODULE Spec2Model ----
(***************************************************************************)
(* The measurement orchestration pipeline of FingerprintJS v5.0.1:         *)
(* awaitIfAsync, mapWithBreaks, loadSource and loadSources, run on a host  *)
(* event loop (one synchronous job at a time, a FIFO microtask queue, host *)
(* tasks and a wall clock).                                                *)
(***************************************************************************)
EXTENDS Integers, Sequences, FiniteSets, TLC

\* Bounds of the model.
NumSources == 2      \* registered entropy sources, keys 1..NumSources in registration order
MaxTime == 2         \* the wall clock Date.now() runs from 0 to MaxTime
MaxGetCalls == 2     \* calls of getComponents() the host makes
MaxExclude == 1      \* length of the exclusion list
MaxComponents == 2   \* entries of a components object given to componentsToCanonicalString
MaxDuration == 1     \* the duration field of a component is 0..MaxDuration
MaxInputLength == 47 \* characters of the string given to x64hash128
MaxOperations == 4   \* reads and writes of visitorId on one result object
MaxCompared == 3      \* entries of two objects compared that have no entry in common
MaxGetterCalls == 3   \* calls of the screen frame getter
MaxRenderTries == 6  \* value renderTryCount reaches before finalize() is called

VARIABLES
  now,                 \* Date.now()
  horizon,             \* the last value the clock takes in this run (0: the run takes no time)
  sources,             \* loadSources' argument, per key the kind of source registered under it
  hostCalls,           \* how many times the host calls getComponents() in this run
  excludeSources,      \* loadSources' argument: a sequence of source keys
  loopReleaseInterval, \* loadSources' argument
  phase,               \* "init" before loadSources is called, "loaded" after it returned
  running,             \* the synchronous job on the stack: "idle", "map1" or "map2"
  micro,               \* the microtask queue (promise reaction jobs), FIFO
  includedSources,     \* loadSources' local
  map1,                \* the mapWithBreaks pass that calls loadSource
  src,                 \* per source key: loadSource's closure (sourceLoadPromise and its locals)
  get,                 \* the running getComponents() call
  comp,                \* per index: the promise the getter returned to the running call
  components,          \* the object the last completed getComponents() resolved with
  prevComponents,      \* the object the call before it resolved with
  ncalls,              \* getComponents() calls made so far
  probe,               \* per source key: the source's own log of its invocations and results
  canon,               \* calls of componentsToCanonicalString: the arguments and the results
  hash,                \* a call of x64hash128: the argument and the result
  lazy,                \* a result object of makeLazyGetResult and the operations on it
  conf,                \* a call of getConfidence: the argument and the result
  audio,               \* a rendering started by startRenderingAudio
  screen,              \* the screen frame, its watcher and the getter of getUnstableScreenFrame
  iframe,              \* a call of withIframe
  blockers,            \* a call of getDomBlockers
  transform            \* a source made by transformSource and its use

\* The variables of the pipeline
pipeline == <<now, horizon, sources, hostCalls, excludeSources, loopReleaseInterval, phase, running,
              micro, includedSources, map1, src, get, comp, components, prevComponents,
              ncalls, probe>>

\* The variables of the parts that are modelled one at a time
units == <<lazy, conf, audio, screen, iframe, blockers, transform>>

vars == <<pipeline, canon, hash, units>>

SourceKeys == 1..NumSources

\* Object.keys(sources): the registration order
KeysOf == [i \in 1..NumSources |-> i]

\* The elements of a sequence
Range(seq) == {seq[i] : i \in 1..Len(seq)}

\* The sequences over S of length at most n
RECURSIVE SeqsUpTo(_, _)
SeqsUpTo(S, n) ==
  IF n = 0 THEN {<<>>}
  ELSE LET shorter == SeqsUpTo(S, n - 1)
       IN shorter \cup {Append(s, x) : s \in {t \in shorter : Len(t) = n - 1}, x \in S}

\* The exclusion lists: ascending, without repetition
ExcludeLists ==
  {s \in SeqsUpTo(SourceKeys, MaxExclude) :
     \A i, j \in 1..Len(s) : i < j => s[i] < s[j]}

\* A source is a plain synchronous one-stage function ("sync"), or any source ("any"):
\* synchronous or promise-returning, one-stage or two-stage.
SourceKinds == {"sync", "any"}

NoOutcome == [none |-> TRUE]

\* What a source (stage 1) can do when called, and what its promise can settle with
Returns1(kind) == IF kind = "sync" THEN {"throw", "value"}
                  ELSE {"throw", "value", "function", "promise"}
Settles1 == {<<TRUE, "value">>, <<TRUE, "function">>, <<FALSE, "error">>}
\* What a "get" stage function can do when called, and what its promise can settle with
Returns2 == {"throw", "value", "promise"}
Settles2 == {<<TRUE, "value">>, <<FALSE, "error">>}

\* The payload source k produces in stage s: a value, or the error it throws / rejects with
Payload(k, s) == <<k, s>>

----------------------------------------------------------------------------
\* Pure helpers

isPromise(value) == value = "promise"

\* (variant: the typeof test never matches)
isFinalResultLoadedAlways(loadResult) == TRUE

\* (variant: every load result is taken for a "get" stage function)
isFinalResultLoadedNever(loadResult) == FALSE

isFinalResultLoaded(loadResult) == loadResult # "function"

RECURSIVE includesFrom(_, _, _)
includesFrom(haystack, needle, i) ==
  IF i > Len(haystack) THEN FALSE
  ELSE IF haystack[i] = needle THEN TRUE
  ELSE includesFrom(haystack, needle, i + 1)

\* (variant: the loop starts one element late)
includesSkipFirst(haystack, needle) == includesFrom(haystack, needle, 2)

includes(haystack, needle) == includesFrom(haystack, needle, 1)

excludes(haystack, needle) == ~includes(haystack, needle)

\* (variant: no try/catch around action(), the exception leaves awaitIfAsync: "raise")
awaitIfAsyncNoCatch(returned) ==
  IF returned = "throw" THEN [cb |-> "raise", ok |-> FALSE, result |-> "error"]
  ELSE IF isPromise(returned) THEN [cb |-> "then", ok |-> TRUE, result |-> returned]
  ELSE [cb |-> "sync", ok |-> TRUE, result |-> returned]

\* (variant: a plain `await action()`, the callback always runs in a microtask: "micro")
awaitIfAsyncAwait(returned) ==
  IF returned = "throw" THEN [cb |-> "micro", ok |-> FALSE, result |-> "error"]
  ELSE IF isPromise(returned) THEN [cb |-> "then", ok |-> TRUE, result |-> returned]
  ELSE [cb |-> "micro", ok |-> TRUE, result |-> returned]

\* awaitIfAsync(action, callback), by what action() did: the callback runs now
\* ("sync") with (ok, result), or when the returned promise settles ("then").
awaitIfAsync(returned) ==
  IF returned = "throw" THEN [cb |-> "sync", ok |-> FALSE, result |-> "error"]
  ELSE IF isPromise(returned) THEN [cb |-> "then", ok |-> TRUE, result |-> returned]
  ELSE [cb |-> "sync", ok |-> TRUE, result |-> returned]

\* (variant: the result is put in front of the others)
storeResultInFront(results, i, result) == <<result>> \o results

\* results[i] = callback(items[i], i) (line 101); i is counted from 1
storeResult(results, i, result) ==
  [j \in 1..(IF i > Len(results) THEN i ELSE Len(results)) |->
     IF j = i THEN result ELSE results[j]]

\* (variant: the loop is released only when the time passed is more than the interval)
shouldReleaseLater(t, lastLoopReleaseTime, interval) == t > lastLoopReleaseTime + interval

\* mapWithBreaks' test after each item (line 103)
shouldRelease(t, lastLoopReleaseTime, interval) == t >= lastLoopReleaseTime + interval

\* (variant: the index is not advanced when the loop is released)
mapAfterItemStuck(m, t) ==
  IF shouldRelease(t, m.last, loopReleaseInterval)
  THEN [m EXCEPT !.st = "wait", !.last = t]
  ELSE [m EXCEPT !.i = @ + 1]

\* mapWithBreaks after callback(items[i], i) returned at time t: the loop's locals
mapAfterItem(m, t) ==
  IF shouldRelease(t, m.last, loopReleaseInterval)
  THEN [m EXCEPT !.st = "wait", !.i = @ + 1, !.last = t]
  ELSE [m EXCEPT !.i = @ + 1]

\* (variant: a failed load rejects sourceLoadPromise)
loadCallbackReject(s, ok, result, arg, t) ==
  IF ~ok THEN [s EXCEPT !.st = "rejected", !.start = 0, !.dur = t - s.start]
  ELSE [s EXCEPT !.st = "resolved",
                 !.start = 0,
                 !.dur = t - s.start,
                 !.fin = IF isFinalResultLoaded(result) THEN "final" ELSE "get",
                 !.arg = arg]

\* loadSource's first callback (lines 536-560) run at time t: what sourceLoadPromise
\* resolves with. fin is the finalizeSource it builds: "error", "final" or "get".
\* loadStartTime is not read again, and is dropped from the state.
loadCallback(s, ok, result, arg, t) ==
  [s EXCEPT !.st = "resolved",
            !.start = 0,
            !.dur = t - s.start,
            !.fin = IF ~ok THEN "error"
                    ELSE IF isFinalResultLoaded(result) THEN "final" ELSE "get",
            !.arg = arg]

\* (variant: the error outcome also carries a value field)
finalizeLoadedBoth(s) ==
  IF s.fin = "error" THEN [value |-> s.arg, error |-> s.arg, duration |-> s.dur]
  ELSE [value |-> s.arg, duration |-> s.dur]

\* finalizeSource() of a source that loaded with an error or with its final result
finalizeLoaded(s) ==
  IF s.fin = "error" THEN [error |-> s.arg, duration |-> s.dur]
  ELSE [value |-> s.arg, duration |-> s.dur]

\* (variant: the duration is counted from the start of the load)
getCallbackFromLoad(loadDuration, getStartTime, ok, arg, t) ==
  LET duration == loadDuration + t
  IN IF ~ok THEN [error |-> arg, duration |-> duration]
     ELSE [value |-> arg, duration |-> duration]

\* loadSource's second callback (lines 550-558) run at time t
getCallback(loadDuration, getStartTime, ok, arg, t) ==
  LET duration == loadDuration + t - getStartTime
  IN IF ~ok THEN [error |-> arg, duration |-> duration]
     ELSE [value |-> arg, duration |-> duration]

\* (variant: the components are keyed by Object.keys(sources), not by includedSources)
buildComponentsAllKeys(included, componentArray) ==
  [index \in 1..Len(included) |->
     [key |-> KeysOf[index], out |-> componentArray[index]]]

\* (variant: failed components are filtered out of the array before the loop)
buildComponentsDropErrors(included, componentArray) ==
  LET kept == SelectSeq([index \in 1..Len(included) |-> componentArray[index]],
                        LAMBDA o : ~("error" \in DOMAIN o))
  IN [index \in 1..Len(kept) |-> [key |-> included[index], out |-> kept[index]]]

\* getComponents' loop (lines 585-588): an object, as its entries in key order
buildComponents(included, componentArray) ==
  [index \in 1..Len(included) |->
     [key |-> included[index], out |-> componentArray[index]]]

\* loadSources' filter (line 576)
filterIncluded(keys, excluded) == SelectSeq(keys, LAMBDA sourceKey : excludes(excluded, sourceKey))

----------------------------------------------------------------------------
\* The state

NoSrc == [st |-> "idle", start |-> 0, dur |-> 0, fin |-> "none", arg |-> <<0, 0>>]
NoComp == [st |-> "none", getStart |-> 0, out |-> NoOutcome]
\* A source's log: how often each stage was called, what the last call of each stage
\* returned, when the stage in progress began, how long the last run of each stage took
\* (for a stage that returned a promise: until its result was delivered to the loader),
\* what the source produced at last ("none" while it has not) and in which stage, and
\* whether its first stage produced a "get" stage function.
\* What an observer of a mapWithBreaks loop saw after the item processed last: how much
\* time had passed since the loop was released last (or since it began), and whether
\* the loop was released then
NoTest == [elapsed |-> 0, released |-> FALSE]
observed(m, after, t) == [elapsed |-> t - m.last, released |-> after.st = "wait"]

NoProbe == [calls1 |-> 0, calls2 |-> 0, ret1 |-> "none", ret2 |-> "none", began |-> 0,
            len1 |-> 0, len2 |-> 0, kind |-> "none", stage |-> 0, two |-> FALSE]

\* No call of componentsToCanonicalString, no call of x64hash128
NoCanon == [st |-> "none"]
NoHash == [st |-> "none"]

\* A part that is not used
NoUnit == [st |-> "none"]
\* Every part but the named one is not used
OthersIdle(unit) ==
  /\ IF unit = "lazy" THEN TRUE ELSE lazy = NoUnit
  /\ IF unit = "conf" THEN TRUE ELSE conf = NoUnit
  /\ IF unit = "audio" THEN TRUE ELSE audio = NoUnit
  /\ IF unit = "screen" THEN TRUE ELSE screen = NoUnit
  /\ IF unit = "iframe" THEN TRUE ELSE iframe = NoUnit
  /\ IF unit = "blockers" THEN TRUE ELSE blockers = NoUnit
  /\ IF unit = "transform" THEN TRUE ELSE transform = NoUnit

UnitsIdle == OthersIdle("none")

Elapse == {d \in {0, 1} : now + d <= horizon}

\* At most one source is not a plain synchronous one
OneAnySource(srcs) ==
  \A k1, k2 \in SourceKeys : srcs[k1] = "any" /\ srcs[k2] = "any" => k1 = k2

\* The runs: (1) sources of any kind, a single getComponents() call and a run that takes
\* no measurable time: the clock stands still and the release interval decides whether
\* mapWithBreaks releases the loop after every item (0) or never; (2) as (1) with the
\* host calling getComponents() several times, one call after the other has resolved,
\* and at most one source that is not a plain synchronous one; (3) the clock runs, a
\* single call, and at most one source is not a plain synchronous one.
Init ==
  /\ UnitsIdle
  /\ now = 0
  /\ horizon \in {0, MaxTime}
  /\ sources \in [SourceKeys -> SourceKinds]
  /\ hostCalls \in 1..MaxGetCalls
  /\ IF horizon = 0
     THEN /\ IF hostCalls = 1 THEN \A k \in SourceKeys : sources[k] = "any"
                               ELSE OneAnySource(sources)
          /\ loopReleaseInterval \in {0, 1}
     ELSE /\ hostCalls = 1
          /\ OneAnySource(sources)
          /\ loopReleaseInterval \in 1..MaxTime
  /\ excludeSources \in ExcludeLists
  /\ phase = "init"
  /\ running = "idle"
  /\ micro = <<>>
  /\ includedSources = <<>>
  /\ map1 = [st |-> "none", i |-> 1, last |-> 0, results |-> <<>>, test |-> NoTest]
  /\ src = [k \in SourceKeys |-> NoSrc]
  /\ get = [st |-> "none", i |-> 1, last |-> 0, test |-> NoTest]
  /\ comp = [idx \in 1..NumSources |-> NoComp]
  /\ components = <<>>
  /\ prevComponents = <<>>
  /\ ncalls = 0
  /\ probe = [k \in SourceKeys |-> NoProbe]
  /\ canon = NoCanon
  /\ hash = NoHash

\* The host calls loadSources(sources, sourceOptions, excludeSources, loopReleaseInterval):
\* lines 576-579 up to the first callback of mapWithBreaks (lines 98-99).
LoadSources ==
  /\ phase = "init"
  /\ phase' = "loaded"
  /\ includedSources' = filterIncluded(KeysOf, excludeSources)
  /\ map1' = [st |-> "run", i |-> 1, last |-> now, results |-> <<>>, test |-> NoTest]
  /\ running' = "map1"
  /\ UNCHANGED <<canon, hash, units, now, horizon, sources, hostCalls, excludeSources, loopReleaseInterval, micro, src, get, comp,
                 components, prevComponents, ncalls, probe>>

\* One iteration of the first mapWithBreaks loop: loadSource(sources[sourceKey]) calls the
\* source, which returns, throws or hands back a promise, taking d units of time.
Map1Step ==
  /\ running = "map1"
  /\ map1.i <= Len(includedSources)
  /\ \E returned \in Returns1(sources[includedSources[map1.i]]), d \in Elapse :
       LET k == includedSources[map1.i]
           a == awaitIfAsync(returned)
           t == now + d
           s0 == [NoSrc EXCEPT !.start = now]
           m == mapAfterItem([map1 EXCEPT !.results = storeResult(@, map1.i, k)], t)
       IN /\ now' = t
          /\ src' = [src EXCEPT ![k] =
                       IF a.cb = "sync" THEN loadCallback(s0, a.ok, a.result, Payload(k, 1), t)
                       ELSE IF a.cb = "then" THEN [s0 EXCEPT !.st = "pending"]
                       ELSE IF a.cb = "micro" THEN [s0 EXCEPT !.st = "settled"]
                       ELSE [s0 EXCEPT !.st = "rejected"]]
          /\ micro' = IF a.cb = "micro"
                      THEN Append(micro, [t |-> "loadCb", k |-> k, ok |-> a.ok, result |-> a.result])
                      ELSE micro
          /\ probe' = [probe EXCEPT ![k] =
                         [@ EXCEPT !.calls1 = @ + 1, !.ret1 = returned,
                                   !.began = IF returned = "promise" THEN now ELSE 0,
                                   !.len1 = d,
                                   !.two = (returned = "function"),
                                   !.kind = IF returned = "throw" THEN "error"
                                            ELSE IF returned = "value" THEN "value"
                                            ELSE "none",
                                   !.stage = 1]]
          /\ map1' = [m EXCEPT !.test = observed(map1, m, t)]
          /\ running' = IF m.st = "wait" THEN "idle" ELSE "map1"
  /\ UNCHANGED <<canon, hash, units, horizon, sources, hostCalls, excludeSources, loopReleaseInterval, phase, includedSources, get, comp,
                 components, prevComponents, ncalls>>

\* The first loop ends (line 108): sourceGettersPromise resolves, and a getComponents()
\* that awaits it (line 581) is scheduled.
Map1Finish ==
  /\ running = "map1"
  /\ map1.i > Len(includedSources)
  /\ map1' = [map1 EXCEPT !.st = "done", !.last = 0, !.test = NoTest]
  /\ running' = "idle"
  /\ micro' = IF get.st = "awaitGetters" THEN Append(micro, [t |-> "gettersReady"]) ELSE micro
  /\ UNCHANGED <<canon, hash, units, now, horizon, sources, hostCalls, excludeSources, loopReleaseInterval, phase, includedSources, src, get,
                 comp, components, prevComponents, ncalls, probe>>

\* releaseEventLoop()'s message arrives (lines 44-48): the first loop goes on.
ReleaseResume1 ==
  /\ running = "idle"
  /\ micro = <<>>
  /\ map1.st = "wait"
  /\ map1' = [map1 EXCEPT !.st = "run"]
  /\ running' = "map1"
  /\ UNCHANGED <<canon, hash, units, now, horizon, sources, hostCalls, excludeSources, loopReleaseInterval, phase, micro, includedSources, src,
                 get, comp, components, prevComponents, ncalls, probe>>

\* The log of a source when the result of the promise its stage returned is delivered
\* to the loader: the stage took from its call until now.
stageDelivered(p, stage) ==
  IF stage = 1 /\ p.ret1 = "promise" THEN [p EXCEPT !.len1 = now - p.began, !.began = 0]
  ELSE IF stage = 2 /\ p.ret2 = "promise" THEN [p EXCEPT !.len2 = now - p.began, !.began = 0]
  ELSE p

\* The promise a source returned in its first stage settles (a host event).
SettleLoad(k) ==
  /\ running = "idle"
  /\ src[k].st = "pending"
  /\ \E s \in Settles1 :
       /\ src' = [src EXCEPT ![k].st = "settled"]
       /\ micro' = Append(micro, [t |-> "loadCb", k |-> k, ok |-> s[1], result |-> s[2]])
       /\ probe' = [probe EXCEPT ![k].two = (s[1] /\ s[2] = "function"),
                                 ![k].kind = IF ~s[1] THEN "error"
                                             ELSE IF s[2] = "value" THEN "value" ELSE "none"]
  /\ UNCHANGED <<canon, hash, units, now, horizon, sources, hostCalls, excludeSources, loopReleaseInterval, phase, running, includedSources,
                 map1, get, comp, components, prevComponents, ncalls>>

\* The indices of the running call whose getter waits for sourceLoadPromise of key k
Waiting(k) == {idx \in 1..Len(map1.results) : map1.results[idx] = k /\ comp[idx].st = "waitLoad"}

\* The jobs that sourceLoadPromise's reactions (line 563) add once it is resolved
RECURSIVE finalizeJobs(_)
finalizeJobs(S) ==
  IF S = {} THEN <<>>
  ELSE LET idx == CHOOSE x \in S : \A y \in S : x <= y
       IN <<[t |-> "finalize", idx |-> idx]>> \o finalizeJobs(S \ {idx})

\* Microtask: the reaction awaitIfAsync put on the first-stage promise (line 82) calls
\* loadSource's callback, which resolves sourceLoadPromise.
RunLoadCallback ==
  /\ running = "idle"
  /\ micro # <<>>
  /\ Head(micro).t = "loadCb"
  /\ LET job == Head(micro)
         k == job.k
     IN /\ src' = [src EXCEPT ![k] = loadCallback(src[k], job.ok, job.result, Payload(k, 1), now)]
        /\ comp' = [idx \in 1..NumSources |->
                      IF idx \in Waiting(k) THEN [comp[idx] EXCEPT !.st = "finalizeQueued"]
                      ELSE comp[idx]]
        /\ micro' = Tail(micro) \o finalizeJobs(Waiting(k))
        /\ probe' = [probe EXCEPT ![k] = stageDelivered(@, 1)]
  /\ UNCHANGED <<canon, hash, units, now, horizon, sources, hostCalls, excludeSources, loopReleaseInterval, phase, running, includedSources,
                 map1, get, components, prevComponents, ncalls>>

\* The host calls getComponents() (line 580); it awaits sourceGettersPromise (line 581).
GetComponents ==
  /\ phase = "loaded"
  /\ running = "idle"
  /\ micro = <<>>
  /\ get.st \in {"none", "done"}
  /\ ncalls < hostCalls
  /\ ncalls' = ncalls + 1
  /\ get' = [st |-> "awaitGetters", i |-> 1, last |-> 0, test |-> NoTest]
  /\ comp' = [idx \in 1..NumSources |-> NoComp]
  /\ micro' = IF map1.st = "done" THEN Append(micro, [t |-> "gettersReady"]) ELSE micro
  /\ UNCHANGED <<canon, hash, units, now, horizon, sources, hostCalls, excludeSources, loopReleaseInterval, phase, running, includedSources,
                 map1, src, components, prevComponents, probe>>

\* Microtask: getComponents goes on after line 581 and enters the second mapWithBreaks.
RunGettersReady ==
  /\ running = "idle"
  /\ micro # <<>>
  /\ Head(micro).t = "gettersReady"
  /\ micro' = Tail(micro)
  /\ get' = [st |-> "run", i |-> 1, last |-> now, test |-> NoTest]
  /\ running' = "map2"
  /\ UNCHANGED <<canon, hash, units, now, horizon, sources, hostCalls, excludeSources, loopReleaseInterval, phase, includedSources, map1, src,
                 comp, components, prevComponents, ncalls, probe>>

\* (variant: the reaction is only run by a promise that resolves later)
getComponentLate(st) ==
  IF st = "rejected" THEN "rejected" ELSE "waitLoad"

\* sourceGetter(): sourceLoadPromise.then(...) (line 563) on a promise in state st
getComponent(st) ==
  IF st = "resolved" THEN "finalizeQueued"
  ELSE IF st = "rejected" THEN "rejected"
  ELSE "waitLoad"

\* One iteration of the second mapWithBreaks loop: sourceGetter() is called (line 582).
Map2Step ==
  /\ running = "map2"
  /\ get.i <= Len(map1.results)
  /\ \E d \in Elapse :
       LET idx == get.i
           k == map1.results[idx]
           c == getComponent(src[k].st)
           m == mapAfterItem(get, now + d)
       IN /\ now' = now + d
          /\ comp' = [comp EXCEPT ![idx].st = c]
          /\ micro' = IF c = "finalizeQueued"
                      THEN Append(micro, [t |-> "finalize", idx |-> idx])
                      ELSE micro
          /\ get' = [m EXCEPT !.test = observed(get, m, now + d)]
          /\ running' = IF m.st = "wait" THEN "idle" ELSE "map2"
  /\ UNCHANGED <<canon, hash, units, horizon, sources, hostCalls, excludeSources, loopReleaseInterval, phase, includedSources, map1, src,
                 components, prevComponents, ncalls, probe>>

\* The second loop ends (line 108); getComponents' await of it (line 582) is scheduled.
Map2Finish ==
  /\ running = "map2"
  /\ get.i > Len(map1.results)
  /\ get' = [get EXCEPT !.st = "awaitMap", !.last = 0, !.test = NoTest]
  /\ running' = "idle"
  /\ micro' = Append(micro, [t |-> "passDone"])
  /\ UNCHANGED <<canon, hash, units, now, horizon, sources, hostCalls, excludeSources, loopReleaseInterval, phase, includedSources, map1, src,
                 comp, components, prevComponents, ncalls, probe>>

\* releaseEventLoop()'s message arrives: the second loop goes on.
ReleaseResume2 ==
  /\ running = "idle"
  /\ micro = <<>>
  /\ get.st = "wait"
  /\ get' = [get EXCEPT !.st = "run"]
  /\ running' = "map2"
  /\ UNCHANGED <<canon, hash, units, now, horizon, sources, hostCalls, excludeSources, loopReleaseInterval, phase, micro, includedSources, map1,
                 src, comp, components, prevComponents, ncalls, probe>>

\* (variant: a promise is awaited for every registered source, excluded or not)
promiseAllRegistered(c) ==
  IF \E idx \in 1..NumSources : c[idx].st = "rejected" THEN "rejected"
  ELSE IF \A idx \in 1..NumSources : c[idx].st = "fulfilled" THEN "fulfilled"
  ELSE "pending"

\* Promise.all(componentPromises) (line 583) over the promises c
promiseAll(c) ==
  IF \E idx \in 1..Len(map1.results) : c[idx].st = "rejected" THEN "rejected"
  ELSE IF \A idx \in 1..Len(map1.results) : c[idx].st = "fulfilled" THEN "fulfilled"
  ELSE "pending"

\* getComponents' state once the component promises are c: awaiting Promise.all settles it
allSettles(c) ==
  IF get.st # "awaitAll" THEN get
  ELSE IF promiseAll(c) = "rejected" THEN [get EXCEPT !.st = "rejected"]
  ELSE IF promiseAll(c) = "fulfilled" THEN [get EXCEPT !.st = "allQueued"]
  ELSE get

allJobs(c) ==
  IF get.st = "awaitAll" /\ promiseAll(c) = "fulfilled" THEN <<[t |-> "allDone"]>> ELSE <<>>

\* Microtask: finalizeSource() (line 563) of a source that loaded with an error or with
\* its final result returns the component.
RunFinalizeLoaded ==
  /\ running = "idle"
  /\ micro # <<>>
  /\ Head(micro).t = "finalize"
  /\ src[map1.results[Head(micro).idx]].fin # "get"
  /\ LET idx == Head(micro).idx
         k == map1.results[idx]
         c == [comp EXCEPT ![idx] = [st |-> "fulfilled", getStart |-> 0, out |-> finalizeLoaded(src[k])]]
     IN /\ comp' = c
        /\ get' = allSettles(c)
        /\ micro' = Tail(micro) \o allJobs(c)
  /\ UNCHANGED <<canon, hash, units, now, horizon, sources, hostCalls, excludeSources, loopReleaseInterval, phase, running, includedSources,
                 map1, src, components, prevComponents, ncalls, probe>>

\* Microtask: finalizeSource() (line 563) of a two-stage source calls its "get" stage
\* function (lines 548-550), which returns, throws or hands back a promise, taking d
\* units of time.
RunFinalizeGet ==
  /\ running = "idle"
  /\ micro # <<>>
  /\ Head(micro).t = "finalize"
  /\ src[map1.results[Head(micro).idx]].fin = "get"
  /\ \E returned \in Returns2, d \in Elapse :
       LET idx == Head(micro).idx
           k == map1.results[idx]
           a == awaitIfAsync(returned)
           t == now + d
           c == [comp EXCEPT ![idx] =
                   IF a.cb = "sync"
                   THEN [st |-> "adopt", getStart |-> 0,
                         out |-> getCallback(src[k].dur, now, a.ok, Payload(k, 2), t)]
                   ELSE IF a.cb = "then" THEN [st |-> "getPending", getStart |-> now, out |-> NoOutcome]
                   ELSE IF a.cb = "micro" THEN [st |-> "getSettled", getStart |-> now, out |-> NoOutcome]
                   ELSE [st |-> "rejected", getStart |-> now, out |-> NoOutcome]]
       IN /\ now' = t
          /\ comp' = c
          /\ get' = allSettles(c)
          /\ micro' = Tail(micro) \o
                      (IF a.cb = "sync" THEN <<[t |-> "adopt", idx |-> idx]>>
                       ELSE IF a.cb = "micro" THEN <<[t |-> "getCb", idx |-> idx, ok |-> a.ok]>>
                       ELSE <<>>)
          /\ probe' = [probe EXCEPT ![k] =
                         [@ EXCEPT !.calls2 = @ + 1, !.ret2 = returned,
                                   !.began = IF returned = "promise" THEN now ELSE 0,
                                   !.len2 = d,
                                   !.kind = IF returned = "throw" THEN "error"
                                            ELSE IF returned = "value" THEN "value"
                                            ELSE "none",
                                   !.stage = 2]]
  /\ UNCHANGED <<canon, hash, units, horizon, sources, hostCalls, excludeSources, loopReleaseInterval, phase, running, includedSources, map1,
                 src, components, prevComponents, ncalls>>

\* The promise a "get" stage function returned settles (a host event).
SettleGet(idx) ==
  /\ running = "idle"
  /\ comp[idx].st = "getPending"
  /\ \E s \in Settles2 :
       /\ comp' = [comp EXCEPT ![idx].st = "getSettled"]
       /\ micro' = Append(micro, [t |-> "getCb", idx |-> idx, ok |-> s[1]])
       /\ probe' = [probe EXCEPT ![map1.results[idx]].kind = IF s[1] THEN "value" ELSE "error"]
  /\ UNCHANGED <<canon, hash, units, now, horizon, sources, hostCalls, excludeSources, loopReleaseInterval, phase, running, includedSources,
                 map1, src, get, components, prevComponents, ncalls>>

\* Microtask: the reaction awaitIfAsync put on the get-stage promise calls loadSource's
\* second callback, which resolves the promise finalizeSource() returned.
RunGetCallback ==
  /\ running = "idle"
  /\ micro # <<>>
  /\ Head(micro).t = "getCb"
  /\ LET idx == Head(micro).idx
         k == map1.results[idx]
     IN /\ comp' = [comp EXCEPT ![idx] =
                      [@ EXCEPT !.st = "adopt",
                                !.getStart = 0,
                                !.out = getCallback(src[k].dur, comp[idx].getStart,
                                                    Head(micro).ok, Payload(k, 2), now)]]
        /\ micro' = Tail(micro) \o <<[t |-> "adopt", idx |-> idx]>>
        /\ probe' = [probe EXCEPT ![k] = stageDelivered(@, 2)]
  /\ UNCHANGED <<canon, hash, units, now, horizon, sources, hostCalls, excludeSources, loopReleaseInterval, phase, running, includedSources,
                 map1, src, get, components, prevComponents, ncalls>>

\* Microtask: the promise getComponent() returned takes the state of the promise
\* finalizeSource() returned (the then-chain of line 563).
RunAdopt ==
  /\ running = "idle"
  /\ micro # <<>>
  /\ Head(micro).t = "adopt"
  /\ LET idx == Head(micro).idx
         c == [comp EXCEPT ![idx].st = "fulfilled"]
     IN /\ comp' = c
        /\ get' = allSettles(c)
        /\ micro' = Tail(micro) \o allJobs(c)
  /\ UNCHANGED <<canon, hash, units, now, horizon, sources, hostCalls, excludeSources, loopReleaseInterval, phase, running, includedSources,
                 map1, src, components, prevComponents, ncalls, probe>>

\* Microtask: getComponents goes on after line 582 and awaits Promise.all (line 583).
RunPassDone ==
  /\ running = "idle"
  /\ micro # <<>>
  /\ Head(micro).t = "passDone"
  /\ get' = [get EXCEPT !.st = IF promiseAll(comp) = "rejected" THEN "rejected"
                               ELSE IF promiseAll(comp) = "fulfilled" THEN "allQueued"
                               ELSE "awaitAll"]
  /\ micro' = Tail(micro) \o
              (IF promiseAll(comp) = "fulfilled" THEN <<[t |-> "allDone"]>> ELSE <<>>)
  /\ UNCHANGED <<canon, hash, units, now, horizon, sources, hostCalls, excludeSources, loopReleaseInterval, phase, running, includedSources,
                 map1, src, comp, components, prevComponents, ncalls, probe>>

\* Microtask: getComponents goes on after line 583, builds the components object
\* (lines 585-588) and returns it (line 589).
RunAllDone ==
  /\ running = "idle"
  /\ micro # <<>>
  /\ Head(micro).t = "allDone"
  /\ micro' = Tail(micro)
  /\ components' = buildComponents(includedSources, [idx \in 1..NumSources |-> comp[idx].out])
  /\ prevComponents' = components
  /\ get' = [get EXCEPT !.st = "done"]
  /\ UNCHANGED <<canon, hash, units, now, horizon, sources, hostCalls, excludeSources, loopReleaseInterval, phase, running, includedSources,
                 map1, src, comp, ncalls, probe>>

\* A host task is still to come: a release message, a settling promise, a call of
\* getComponents().
HostBusy ==
  \/ map1.st = "wait"
  \/ get.st = "wait"
  \/ \E k \in SourceKeys : src[k].st = "pending"
  \/ \E idx \in 1..NumSources : comp[idx].st = "getPending"
  \/ get.st \in {"none", "done"} /\ ncalls < hostCalls

\* Time passes between two tasks of the host.
Tick ==
  /\ phase = "loaded"
  /\ HostBusy
  /\ running = "idle"
  /\ micro = <<>>
  /\ now < horizon
  /\ now' = now + 1
  /\ UNCHANGED <<canon, hash, units, horizon, sources, hostCalls, excludeSources, loopReleaseInterval, phase, running, micro, includedSources,
                 map1, src, get, comp, components, prevComponents, ncalls, probe>>

Next ==
  \/ LoadSources
  \/ Map1Step
  \/ Map1Finish
  \/ ReleaseResume1
  \/ \E k \in SourceKeys : SettleLoad(k)
  \/ RunLoadCallback
  \/ GetComponents
  \/ RunGettersReady
  \/ Map2Step
  \/ Map2Finish
  \/ ReleaseResume2
  \/ RunFinalizeLoaded
  \/ RunFinalizeGet
  \/ \E idx \in 1..NumSources : SettleGet(idx)
  \/ RunGetCallback
  \/ RunAdopt
  \/ RunPassDone
  \/ RunAllDone
  \/ Tick

Spec == Init /\ [][Next]_vars

\* The jobs of the program: the host's event loop runs a job that is ready (the rest of
\* a synchronous job, the microtask at the head of the queue, the releaseEventLoop
\* message that was posted).
Jobs ==
  \/ Map1Step
  \/ Map1Finish
  \/ ReleaseResume1
  \/ RunLoadCallback
  \/ RunGettersReady
  \/ Map2Step
  \/ Map2Finish
  \/ ReleaseResume2
  \/ RunFinalizeLoaded
  \/ RunFinalizeGet
  \/ RunGetCallback
  \/ RunAdopt
  \/ RunPassDone
  \/ RunAllDone

\* The promises the sources returned settle.
Settles ==
  \/ \E k \in SourceKeys : SettleLoad(k)
  \/ \E idx \in 1..NumSources : SettleGet(idx)

\* The runs in which the event loop is scheduled fairly and every promise a source
\* returned settles at last.
FairSpec == Spec /\ WF_vars(Jobs) /\ WF_vars(Settles)

\* The runs in which the event loop is scheduled fairly, while a promise that a source
\* returned may stay pending for ever.
JobsSpec == Spec /\ WF_vars(Jobs)

----------------------------------------------------------------------------
\* The canonical string of a components object (componentsToCanonicalString).
\* A string is a sequence of characters; a components object is the sequence of its
\* entries [key, out] in insertion order, as getComponents builds it.

\* The UTF-16 code units of the characters of the keys and of the canonical strings
codeUnit(c) ==
  CASE c = "\"" -> 34
    [] c \in {"0", "1", "2", "3", "4", "5", "6", "7", "8", "9"}
         -> 48 + (CHOOSE d \in 0..9 : <<"0", "1", "2", "3", "4", "5", "6", "7", "8", "9">>[d + 1] = c)
    [] c = ":" -> 58
    [] c = "\\" -> 92
    [] c = "a" -> 97
    [] c = "b" -> 98
    [] c = "e" -> 101
    [] c = "o" -> 111
    [] c = "r" -> 114
    [] c = "|" -> 124

\* The order Array.prototype.sort() puts strings in: by code units, a prefix first
RECURSIVE lessThan(_, _)
lessThan(x, y) ==
  IF y = <<>> THEN FALSE
  ELSE IF x = <<>> THEN TRUE
  ELSE IF Head(x) = Head(y) THEN lessThan(Tail(x), Tail(y))
  ELSE codeUnit(Head(x)) < codeUnit(Head(y))

RECURSIVE insertSorted(_, _)
insertSorted(sorted, key) ==
  IF sorted = <<>> THEN <<key>>
  ELSE IF lessThan(key, Head(sorted)) THEN <<key>> \o sorted
  ELSE <<Head(sorted)>> \o insertSorted(Tail(sorted), key)

\* Object.keys(components): the keys in insertion order (no key is an array index)
objectKeys(object) == [i \in 1..Len(object) |-> object[i].key]

\* (variant: the keys are not sorted)
sortKeysNot(keys) == keys

\* keys.sort() (line 2965)
RECURSIVE sortKeys(_)
sortKeys(keys) ==
  IF keys = <<>> THEN <<>>
  ELSE insertSorted(sortKeys(SubSeq(keys, 1, Len(keys) - 1)), keys[Len(keys)])

\* components[componentKey] (line 2966)
componentOf(object, componentKey) ==
  (CHOOSE entry \in Range(object) : entry.key = componentKey).out

\* str.replace(/([:|\\])/g, '\\$1') (line 2968)
RECURSIVE escape(_)
escape(str) ==
  IF str = <<>> THEN <<>>
  ELSE (IF Head(str) \in {":", "|", "\\"} THEN <<"\\", Head(str)>> ELSE <<Head(str)>>)
       \o escape(Tail(str))

\* A value is a number, NaN among them, a string or null
Number(n) == [t |-> "number", n |-> n, s |-> <<>>]
String(str) == [t |-> "string", n |-> 0, s |-> str]
NaN == [t |-> "NaN", n |-> 0, s |-> <<>>]
Null == [t |-> "null", n |-> 0, s |-> <<>>]

decimalDigit(d) == <<"0", "1", "2", "3", "4", "5", "6", "7", "8", "9">>[d + 1]

RECURSIVE decimal(_)
decimal(n) == IF n < 10 THEN <<decimalDigit(n)>> ELSE decimal(n \div 10) \o <<decimalDigit(n % 10)>>

\* The characters of a string between the quotes JSON.stringify puts around it
RECURSIVE quoted(_)
quoted(str) ==
  IF str = <<>> THEN <<>>
  ELSE (IF Head(str) \in {"\"", "\\"} THEN <<"\\", Head(str)>> ELSE <<Head(str)>>)
       \o quoted(Tail(str))

\* (variant: a string is rendered without its quotes)
JSONstringifyBare(value) ==
  IF value.t = "number" THEN decimal(value.n)
  ELSE IF value.t \in {"NaN", "null"} THEN <<"n", "u", "l", "l">>
  ELSE quoted(value.s)

\* JSON.stringify(value) of a number, a string or null: NaN is rendered as null
JSONstringify(value) ==
  IF value.t = "number" THEN decimal(value.n)
  ELSE IF value.t \in {"NaN", "null"} THEN <<"n", "u", "l", "l">>
  ELSE <<"\"">> \o quoted(value.s) \o <<"\"">>

\* (variant: a failed component is rendered as its error)
canonicalValueOfError(component) ==
  IF "error" \in DOMAIN component THEN JSONstringify(component.error)
  ELSE JSONstringify(component.value)

\* The value of a record (line 2967)
canonicalValue(component) ==
  IF "error" \in DOMAIN component THEN <<"e", "r", "r", "o", "r">>
  ELSE JSONstringify(component.value)

\* (variant: every record begins with the delimiter)
appendRecordDelimited(result, componentKey, value) ==
  result \o <<"|">> \o escape(componentKey) \o <<":">> \o value

\* result += ... (line 2968)
appendRecord(result, componentKey, value) ==
  result \o (IF result # <<>> THEN <<"|">> ELSE <<>>) \o escape(componentKey) \o <<":">> \o value

\* The loop of componentsToCanonicalString (lines 2965-2969) over the keys left
RECURSIVE canonicalLoop(_, _, _)
canonicalLoop(object, keys, result) ==
  IF keys = <<>> THEN result
  ELSE canonicalLoop(object, Tail(keys),
                     appendRecord(result, Head(keys),
                                  canonicalValue(componentOf(object, Head(keys)))))

componentsToCanonicalString(object) ==
  canonicalLoop(object, sortKeys(objectKeys(object)), <<>>)

\* The keys, values and errors of the components objects canonicalized
ComponentKeys == {<<"a">>, <<"b">>, <<"a", ":">>, <<"|">>, <<"\\">>}
ComponentValues ==
  {Number(1), Number(2), Number(5), Number(10),
   String(<<"a">>), String(<<"|", ":">>), String(<<"\\", "\"">>),
   String(<<"e", "r", "r", "o", "r">>), NaN, Null}
ComponentErrors == {String(<<"a">>), String(<<"b", ":">>), Number(1)}
FirstError == String(<<"a">>)

\* The components objects: at most MaxComponents entries with different keys, each a
\* value or FirstError thrown, all of duration 0
ComponentEntries ==
  {[key |-> k, out |-> [value |-> v, duration |-> 0]] : k \in ComponentKeys, v \in ComponentValues}
  \cup {[key |-> k, out |-> [error |-> FirstError, duration |-> 0]] : k \in ComponentKeys}

ComponentObjects ==
  {c \in SeqsUpTo(ComponentEntries, MaxComponents) :
     \A i, j \in 1..Len(c) : c[i].key = c[j].key => i = j}

\* The pipeline is not used
PipelineIdle ==
  /\ now = 0
  /\ horizon = 0
  /\ sources = [k \in SourceKeys |-> "sync"]
  /\ hostCalls = 1
  /\ excludeSources = <<>>
  /\ loopReleaseInterval = 0
  /\ phase = "init"
  /\ running = "idle"
  /\ micro = <<>>
  /\ includedSources = <<>>
  /\ map1 = [st |-> "none", i |-> 1, last |-> 0, results |-> <<>>, test |-> NoTest]
  /\ src = [k \in SourceKeys |-> NoSrc]
  /\ get = [st |-> "none", i |-> 1, last |-> 0, test |-> NoTest]
  /\ comp = [idx \in 1..NumSources |-> NoComp]
  /\ components = <<>>
  /\ prevComponents = <<>>
  /\ ncalls = 0
  /\ probe = [k \in SourceKeys |-> NoProbe]

CanonInit ==
  /\ PipelineIdle
  /\ UnitsIdle
  /\ hash = NoHash
  /\ canon \in {[st |-> "new", components |-> c] : c \in ComponentObjects}

\* componentsToCanonicalString(components) is called.
Canonicalize ==
  /\ canon.st = "new"
  /\ canon' = [st |-> "one", components |-> canon.components,
               result |-> componentsToCanonicalString(canon.components)]
  /\ UNCHANGED <<pipeline, hash, units>>

\* The orders in which n entries can be inserted
Orders(n) == {f \in [1..n -> 1..n] : \A i, j \in 1..n : f[i] = f[j] => i = j}

\* The same entries are put into another object in another order and with another
\* duration, and that object is canonicalized.
Reinsert ==
  /\ canon.st = "one"
  /\ \E order \in Orders(Len(canon.components)), d \in 0..MaxDuration :
       LET other == [i \in 1..Len(canon.components) |->
                       [key |-> canon.components[order[i]].key,
                        out |-> [canon.components[order[i]].out EXCEPT !.duration = d]]]
       IN canon' = [st |-> "two", how |-> "reinsert",
                    components |-> canon.components, result |-> canon.result,
                    other |-> other, otherResult |-> componentsToCanonicalString(other)]
  /\ UNCHANGED <<pipeline, hash, units>>

\* The sources that failed fail with other errors, and the object is canonicalized.
Refail ==
  /\ canon.st = "one"
  /\ \E i \in 1..Len(canon.components) : "error" \in DOMAIN canon.components[i].out
  /\ \E errors \in [1..Len(canon.components) -> ComponentErrors] :
       LET other == [i \in 1..Len(canon.components) |->
                       IF "error" \in DOMAIN canon.components[i].out
                       THEN [canon.components[i] EXCEPT !.out.error = errors[i]]
                       ELSE canon.components[i]]
       IN canon' = [st |-> "two", how |-> "refail",
                    components |-> canon.components, result |-> canon.result,
                    other |-> other, otherResult |-> componentsToCanonicalString(other)]
  /\ UNCHANGED <<pipeline, hash, units>>

\* Another object is canonicalized. The two objects compared have their keys inserted
\* in ascending order, and have MaxCompared entries together at most unless they have
\* an entry in common.
Another ==
  /\ canon.st = "one"
  /\ objectKeys(canon.components) = sortKeys(objectKeys(canon.components))
  /\ \E other \in ComponentObjects :
       /\ objectKeys(other) = sortKeys(objectKeys(other))
       /\ \/ Len(canon.components) + Len(other) <= MaxCompared
          \/ Range(canon.components) \cap Range(other) # {}
       /\ canon' = [st |-> "two", how |-> "another",
                    components |-> canon.components, result |-> canon.result,
                    other |-> other, otherResult |-> componentsToCanonicalString(other)]
  /\ UNCHANGED <<pipeline, hash, units>>

CanonNext ==
  \/ Canonicalize
  \/ Reinsert
  \/ Refail
  \/ Another

CanonSpec == CanonInit /\ [][CanonNext]_vars

----------------------------------------------------------------------------
\* The hash x64hash128. A 32-bit value of the code is the pair <<high, low>> of its two
\* 16-bit halves, whether the code reads it as signed or as unsigned; a 64-bit value is
\* the pair <<m[0], m[1]>> of two such values, as in the code. An operator takes the
\* values of its arguments: its body is a function applied to them.
Halves == 0..65535
Values32 == [1..2 -> Halves]
Values64 == [1..2 -> Values32]

\* a ^ b and a | b on n-bit numbers
xorBits(a, b, n) ==
  LET bits[x \in Nat, y \in Nat, k \in 0..n] ==
        IF k = 0 THEN 0
        ELSE (((x % 2) + (y % 2)) % 2) + 2 * bits[x \div 2, y \div 2, k - 1]
  IN bits[a, b, n]

orBits(a, b, n) ==
  LET bits[x \in Nat, y \in Nat, k \in 0..n] ==
        IF k = 0 THEN 0
        ELSE (IF (x % 2) + (y % 2) > 0 THEN 1 ELSE 0) + 2 * bits[x \div 2, y \div 2, k - 1]
  IN bits[a, b, n]

\* The operators ^, |, << and >>> of the language on 32-bit values; a shift count is
\* taken modulo 32
xor(v, w) ==
  LET value[a \in Values32, b \in Values32] ==
        <<xorBits(a[1], b[1], 16), xorBits(a[2], b[2], 16)>>
  IN value[v, w]

or(v, w) ==
  LET value[a \in Values32, b \in Values32] ==
        <<orBits(a[1], b[1], 16), orBits(a[2], b[2], 16)>>
  IN value[v, w]

shl(v, count) ==
  LET value[a \in Values32, c \in 0..31] ==
        IF c < 16
        THEN <<((a[1] * (2^c)) % 65536) + (a[2] \div (2^(16 - c))), (a[2] * (2^c)) % 65536>>
        ELSE <<(a[2] * (2^(c - 16))) % 65536, 0>>
  IN value[v, count % 32]

ushr(v, count) ==
  LET value[a \in Values32, c \in 0..31] ==
        IF c < 16
        THEN <<a[1] \div (2^c), ((a[1] % (2^c)) * (2^(16 - c))) + (a[2] \div (2^c))>>
        ELSE <<0, a[1] \div (2^(c - 16))>>
  IN value[v, count % 32]

\* A number below 65536 as a 32-bit value
int32(n) == <<0, n>>

\* a * b of two 16-bit numbers: <<(a * b) >>> 16, (a * b) & 0xffff>>
times(a, b) ==
  LET value[x \in Halves, y \in Halves] ==
        LET high == x * (y \div 256)
            low == ((high % 256) * 256) + (x * (y % 256))
        IN <<(high \div 256) + (low \div 65536), low % 65536>>
  IN value[a, b]

\* o += a * b for a 16-bit digit: <<o >>> 16, o & 0xffff>> after the addition
plusTimes(o, a, b) ==
  LET value[z \in Nat, x \in Halves, y \in Halves] ==
        LET p == times(x, y)
            low == z + p[2]
        IN <<(p[1] + (low \div 65536)) % 65536, low % 65536>>
  IN value[o, a, b]

\* x64Add(m, n): the value written to m
x64Add(m, n) ==
  LET written[a \in Values64, b \in Values64] ==
        LET m0 == a[1][1]  m1 == a[1][2]  m2 == a[2][1]  m3 == a[2][2]
            n0 == b[1][1]  n1 == b[1][2]  n2 == b[2][1]  n3 == b[2][2]
            o3 == m3 + n3
            o2 == (o3 \div 65536) + m2 + n2
            o1 == (o2 \div 65536) + m1 + n1
            o0 == (o1 \div 65536) + m0 + n0
        IN <<<<o0 % 65536, o1 % 65536>>, <<o2 % 65536, o3 % 65536>>>>
  IN written[m, n]

\* x64Multiply(m, n): the value written to m. The digits o0..o3 are o[1]..o[4]; a
\* group is the three statements o_k += m_i * n_j; o_(k-1) += o_k >>> 16;
\* o_k &= 0xffff, and groups lists the six of them in the order of the code;
\* of the four products added to o0 only the low 16 bits count.
x64Multiply(m, n) ==
  LET written[a \in Values64, b \in Values64] ==
        LET md == <<a[1][1], a[1][2], a[2][1], a[2][2]>>
            nd == <<b[1][1], b[1][2], b[2][1], b[2][2]>>
            group[o \in [1..4 -> Nat], k \in 2..4, x \in Halves, y \in Halves] ==
              LET p == plusTimes(o[k], x, y)
              IN [o EXCEPT ![k] = p[2], ![k - 1] = o[k - 1] + p[1]]
            groups == <<<<4, 4, 4>>, <<3, 3, 4>>, <<3, 4, 3>>,
                        <<2, 2, 4>>, <<2, 3, 3>>, <<2, 4, 2>>>>
            after[g \in 0..6] ==
              IF g = 0 THEN <<0, 0, 0, 0>>
              ELSE group[after[g - 1], groups[g][1], md[groups[g][2]], nd[groups[g][3]]]
            last[o \in [1..4 -> Nat]] ==
              <<<<(o[1] + times(md[1], nd[4])[2] + times(md[2], nd[3])[2]
                   + times(md[3], nd[2])[2] + times(md[4], nd[1])[2]) % 65536, o[2]>>,
                <<o[3], o[4]>>>>
        IN last[after[6]]
  IN written[m, n]

\* (variant: a rotation by more than 32 bits does not exchange the two halves)
x64RotlNoSwap(m, count) ==
  LET written[a \in Values64, bits \in 0..31] ==
        IF bits = 0 THEN a
        ELSE <<or(shl(a[1], bits), ushr(a[2], 32 - bits)),
               or(shl(a[2], bits), ushr(a[1], 32 - bits))>>
  IN written[m, (count % 64) % 32]

\* x64Rotl(m, bits): the value written to m
x64Rotl(m, count) ==
  LET written[a \in Values64, bits \in 0..63] ==
        IF bits = 32 THEN <<a[2], a[1]>>
        ELSE IF bits < 32
        THEN <<or(shl(a[1], bits), ushr(a[2], 32 - bits)),
               or(shl(a[2], bits), ushr(a[1], 32 - bits))>>
        ELSE <<or(shl(a[2], bits - 32), ushr(a[1], 32 - (bits - 32))),
               or(shl(a[1], bits - 32), ushr(a[2], 32 - (bits - 32)))>>
  IN written[m, count % 64]

\* x64LeftShift(m, bits): the value written to m
x64LeftShift(m, count) ==
  LET written[a \in Values64, bits \in 0..63] ==
        IF bits = 0 THEN a
        ELSE IF bits < 32 THEN <<ushr(a[2], 32 - bits), shl(a[2], bits)>>
        ELSE <<shl(a[2], bits - 32), int32(0)>>
  IN written[m, count % 64]

\* x64Xor(m, n): the value written to m
x64Xor(m, n) ==
  LET written[a \in Values64, b \in Values64] == <<xor(a[1], b[1]), xor(a[2], b[2])>>
  IN written[m, n]

F1 == <<<<65361, 45015>>, <<60757, 36045>>>>   \* [0xff51afd7, 0xed558ccd]
F2 == <<<<50382, 47614>>, <<6789, 60499>>>>    \* [0xc4ceb9fe, 0x1a85ec53]

\* h[1] ^= h[0] >>> 1
xorShifted(h) ==
  LET written[a \in Values64] == x64Xor(a, <<int32(0), ushr(a[1], 1)>>)
  IN written[h]

\* x64Fmix(h): the value written to h
x64Fmix(h) == xorShifted(x64Multiply(xorShifted(x64Multiply(xorShifted(h), F1)), F2))

C1 == <<<<34755, 31633>>, <<4418, 21461>>>>    \* [0x87c37b91, 0x114253d5]
C2 == <<<<19701, 44355>>, <<10053, 37759>>>>   \* [0x4cf5ad43, 0x2745937f]
M == <<int32(0), int32(5)>>                    \* [0, 5]
N1 == <<int32(0), <<21212, 59177>>>>           \* [0, 0x52dce729]
N2 == <<int32(0), <<14409, 23221>>>>           \* [0, 0x38495ab5]

\* new TextEncoder().encode(input) of one UTF-16 code unit that is no surrogate
encodeUnit(c) ==
  IF c < 128 THEN <<c>>
  ELSE IF c < 2048 THEN <<192 + (c \div 64), 128 + (c % 64)>>
  ELSE <<224 + (c \div 4096), 128 + ((c \div 64) % 64), 128 + (c % 64)>>

RECURSIVE encode(_)
encode(input) ==
  IF input = <<>> THEN <<>> ELSE encodeUnit(Head(input)) \o encode(Tail(input))

\* getUTF8Bytes(input): input is the sequence of the string's char codes
getUTF8Bytes(input) ==
  IF \E i \in 1..Len(input) : input[i] > 127 THEN encode(input) ELSE input

\* key[i] | (key[i + 1] << 8) | (key[i + 2] << 16) | (key[i + 3] << 24), i counted from 0
littleEndian(key, i) ==
  or(or(or(int32(key[i + 1]), shl(int32(key[i + 2]), 8)),
        shl(int32(key[i + 3]), 16)),
     shl(int32(key[i + 4]), 24))

\* One iteration of the loop over the 16-byte blocks (lines 380-399) at offset i:
\* <<h1, h2>> after it
block(key, i, h1, h2) ==
  LET k1 == <<littleEndian(key, i + 4), littleEndian(key, i)>>
      k2 == <<littleEndian(key, i + 12), littleEndian(key, i + 8)>>
      k1m == x64Multiply(x64Rotl(x64Multiply(k1, C1), 31), C2)
      k2m == x64Multiply(x64Rotl(x64Multiply(k2, C2), 33), C1)
      \* lines 395-399, h1 being final
      second[h1n \in Values64] ==
        <<h1n, x64Add(x64Multiply(x64Add(x64Rotl(x64Xor(h2, k2m), 31), h1n), M), N2)>>
  IN second[x64Add(x64Multiply(x64Add(x64Rotl(x64Xor(h1, k1m), 27), h2), M), N1)]

\* The shift of each case of the switch (lines 406-488); cases 1 and 9 do not shift
tailShift == <<0, 8, 16, 24, 32, 40, 48, 56, 0, 8, 16, 24, 32, 40, 48>>

\* One case of the switch: val[1] = key[i + c - 1] (i and the index counted from 0), the
\* shift of val, and the update of k1, k2, h1, h2; val keeps val[0] from the case before
tailCase(key, i, c, t) ==
  LET set == <<t.val[1], int32(key[i + c])>>
      val == IF c \in {1, 9} THEN set ELSE x64LeftShift(set, tailShift[c])
  IN IF c >= 10 THEN [t EXCEPT !.val = val, !.k2 = x64Xor(t.k2, val)]
     ELSE IF c = 9
     THEN LET k2 == x64Multiply(x64Rotl(x64Multiply(x64Xor(t.k2, val), C2), 33), C1)
          IN [t EXCEPT !.val = val, !.k2 = k2, !.h2 = x64Xor(t.h2, k2)]
     ELSE IF c >= 2 THEN [t EXCEPT !.val = val, !.k1 = x64Xor(t.k1, val)]
     ELSE LET k1 == x64Multiply(x64Rotl(x64Multiply(x64Xor(t.k1, val), C1), 31), C2)
          IN [t EXCEPT !.val = val, !.k1 = k1, !.h1 = x64Xor(t.h1, k1)]

\* The digits of n.toString(16) for a 32-bit value read as unsigned
hexDigit(d) == <<"0", "1", "2", "3", "4", "5", "6", "7", "8", "9", "a", "b", "c", "d", "e", "f">>[d + 1]

RECURSIVE dropZeros(_)
dropZeros(digits) ==
  IF Len(digits) > 1 /\ Head(digits) = "0" THEN dropZeros(Tail(digits)) ELSE digits

toString16(v) ==
  dropZeros(<<hexDigit(v[1] \div 4096), hexDigit((v[1] \div 256) % 16),
              hexDigit((v[1] \div 16) % 16), hexDigit(v[1] % 16),
              hexDigit(v[2] \div 4096), hexDigit((v[2] \div 256) % 16),
              hexDigit((v[2] \div 16) % 16), hexDigit(v[2] % 16)>>)

\* str.slice(-8)
sliceLast8(str) == IF Len(str) <= 8 THEN str ELSE SubSeq(str, Len(str) - 7, Len(str))

\* -v of a 32-bit value
negated(v) ==
  <<(65535 - v[1] + (IF v[2] = 0 THEN 1 ELSE 0)) % 65536, (65536 - v[2]) % 65536>>

\* (variant: without >>> 0, a value with its top bit set is a negative number)
hexWordSigned(v) ==
  sliceLast8(<<"0", "0", "0", "0", "0", "0", "0", "0">>
             \o (IF v[1] >= 32768 THEN <<"-">> \o toString16(negated(v)) ELSE toString16(v)))

\* ('00000000' + (v >>> 0).toString(16)).slice(-8) (lines 497-500)
hexWord(v) ==
  sliceLast8(<<"0", "0", "0", "0", "0", "0", "0", "0">> \o toString16(ushr(v, 0)))

\* The strings hashed, as their char codes: of every length up to MaxInputLength, the
\* letter a repeated, changing ASCII characters, the two-byte character U+00E9
\* repeated, and ASCII characters with the three-byte character U+20AC among them
InputPatterns == {"a", "ascii", "twoBytes", "mixed"}
charCodeAt(pattern, i) ==
  IF pattern = "a" THEN 97
  ELSE IF pattern = "ascii" THEN ((i * 37) + 11) % 128
  ELSE IF pattern = "twoBytes" THEN 233
  ELSE IF i % 3 = 0 THEN 8364 ELSE (i * 53) % 128

\* Two strings whose MurmurHash3 x64-128 digests are published: "hello" and
\* "The quick brown fox jumps over the lazy dog"
Hello == <<104, 101, 108, 108, 111>>
QuickBrownFox ==
  <<84, 104, 101, 32, 113, 117, 105, 99, 107, 32, 98, 114, 111, 119, 110, 32, 102, 111, 120,
  32, 106, 117, 109, 112, 115, 32, 111, 118, 101, 114, 32, 116, 104, 101, 32, 108, 97, 122,
  121, 32, 100, 111, 103>>

HashInputs ==
  {[i \in 1..length |-> charCodeAt(pattern, i)] : length \in 0..MaxInputLength, pattern \in InputPatterns}
    \cup {Hello, QuickBrownFox}

\* MurmurHash3 x64-128, the reference: a 64-bit number is the sequence of its 8 bytes,
\* the lowest first; sums and products wrap modulo 2^64
Numbers == [1..8 -> 0..255]

murmurBits[x \in Numbers] == [n \in 1..64 |-> (x[((n - 1) \div 8) + 1] \div (2 ^ ((n - 1) % 8))) % 2]

murmurNumber[bits \in [1..64 -> {0, 1}]] ==
  [j \in 1..8 |-> LET n == 8 * (j - 1)
                  IN bits[n + 1] + (2 * bits[n + 2]) + (4 * bits[n + 3]) + (8 * bits[n + 4])
                     + (16 * bits[n + 5]) + (32 * bits[n + 6]) + (64 * bits[n + 7])
                     + (128 * bits[n + 8])]

\* A number below 2^24
murmurOf(n) == <<n % 256, (n \div 256) % 256, (n \div 65536) % 256, 0, 0, 0, 0, 0>>

murmurXor[a \in Numbers, b \in Numbers] ==
  LET x == murmurBits[a]
      y == murmurBits[b]
  IN murmurNumber[[n \in 1..64 |-> (x[n] + y[n]) % 2]]

murmurRotl[a \in Numbers, r \in 0..63] ==
  LET x == murmurBits[a]
  IN murmurNumber[[n \in 1..64 |-> x[((n + 63 - r) % 64) + 1]]]

murmurShiftRight[a \in Numbers, r \in 0..63] ==
  LET x == murmurBits[a]
  IN murmurNumber[[n \in 1..64 |-> IF n + r <= 64 THEN x[n + r] ELSE 0]]

\* The sum of bytes 1..j of a and b, divided by 256 ^ (j - 1), with its carry
murmurSum[a \in Numbers, b \in Numbers, j \in 1..8] ==
  a[j] + b[j] + (IF j = 1 THEN 0 ELSE murmurSum[a, b, j - 1] \div 256)

murmurAdd[a \in Numbers, b \in Numbers] == [j \in 1..8 |-> murmurSum[a, b, j] % 256]

\* a[1] * b[j] + ... + a[n] * b[j + 1 - n]
murmurColumn[a \in Numbers, b \in Numbers, j \in 1..8, n \in 0..8] ==
  IF n = 0 THEN 0 ELSE (a[n] * b[j + 1 - n]) + murmurColumn[a, b, j, n - 1]

murmurProduct[a \in Numbers, b \in Numbers, j \in 1..8] ==
  murmurColumn[a, b, j, j] + (IF j = 1 THEN 0 ELSE murmurProduct[a, b, j - 1] \div 256)

murmurMultiply[a \in Numbers, b \in Numbers] == [j \in 1..8 |-> murmurProduct[a, b, j] % 256]

murmurC1 == <<213, 83, 66, 17, 145, 123, 195, 135>>   \* 0x87c37b91114253d5
murmurC2 == <<127, 147, 69, 39, 67, 173, 245, 76>>   \* 0x4cf5ad432745937f
murmurN1 == <<41, 231, 220, 82, 0, 0, 0, 0>>   \* 0x52dce729
murmurN2 == <<181, 90, 73, 56, 0, 0, 0, 0>>   \* 0x38495ab5
murmurF1 == <<205, 140, 85, 237, 215, 175, 81, 255>>   \* 0xff51afd7ed558ccd
murmurF2 == <<83, 236, 133, 26, 254, 185, 206, 196>>   \* 0xc4ceb9fe1a85ec53
murmurFive == <<5, 0, 0, 0, 0, 0, 0, 0>>   \* 0x5

murmurFmix[k \in Numbers] ==
  LET a == murmurMultiply[murmurXor[k, murmurShiftRight[k, 33]], murmurF1]
      b == murmurMultiply[murmurXor[a, murmurShiftRight[a, 33]], murmurF2]
  IN murmurXor[b, murmurShiftRight[b, 33]]

\* The body of the reference's loop for the 16 bytes after the first i bytes of data
murmurBlock(h, data, i) ==
  LET k1 == murmurMultiply[murmurRotl[murmurMultiply[SubSeq(data, i + 1, i + 8), murmurC1], 31],
                           murmurC2]
      k2 == murmurMultiply[murmurRotl[murmurMultiply[SubSeq(data, i + 9, i + 16), murmurC2], 33],
                           murmurC1]
      h1 == murmurAdd[murmurMultiply[murmurAdd[murmurRotl[murmurXor[h.h1, k1], 27], h.h2],
                                     murmurFive], murmurN1]
      h2 == murmurAdd[murmurMultiply[murmurAdd[murmurRotl[murmurXor[h.h2, k2], 31], h1],
                                     murmurFive], murmurN2]
  IN [h1 |-> h1, h2 |-> h2]

\* The reference's tail: the bytes after the last full block, fewer than 16
murmurTail(h, tail) ==
  LET k1 == [j \in 1..8 |-> IF j <= Len(tail) THEN tail[j] ELSE 0]
      k2 == [j \in 1..8 |-> IF j + 8 <= Len(tail) THEN tail[j + 8] ELSE 0]
  IN [h1 |-> IF Len(tail) > 0
             THEN murmurXor[h.h1, murmurMultiply[murmurRotl[murmurMultiply[k1, murmurC1], 31],
                                                 murmurC2]]
             ELSE h.h1,
      h2 |-> IF Len(tail) > 8
             THEN murmurXor[h.h2, murmurMultiply[murmurRotl[murmurMultiply[k2, murmurC2], 33],
                                                 murmurC1]]
             ELSE h.h2]

\* h1 ^= len; h2 ^= len; h1 += h2; h2 += h1
murmurLength(h, len) ==
  LET h1 == murmurAdd[murmurXor[h.h1, murmurOf(len)], murmurXor[h.h2, murmurOf(len)]]
  IN [h1 |-> h1, h2 |-> murmurAdd[murmurXor[h.h2, murmurOf(len)], h1]]

murmurMix(h) == [h1 |-> murmurFmix[h.h1], h2 |-> murmurFmix[h.h2]]

\* h1 += h2; h2 += h1
murmurLast(h) ==
  LET h1 == murmurAdd[h.h1, h.h2]
  IN [h1 |-> h1, h2 |-> murmurAdd[h.h2, h1]]

murmurDigit(d) == SubSeq(<<"0", "1", "2", "3", "4", "5", "6", "7", "8", "9", "a", "b", "c", "d", "e", "f">>, d + 1, d + 1)

\* The 16 hexadecimal digits of a number, the highest first
murmurHex(a) ==
  murmurDigit(a[8] \div 16) \o murmurDigit(a[8] % 16) \o murmurDigit(a[7] \div 16) \o murmurDigit(a[7] % 16)
  \o murmurDigit(a[6] \div 16) \o murmurDigit(a[6] % 16) \o murmurDigit(a[5] \div 16) \o murmurDigit(a[5] % 16)
  \o murmurDigit(a[4] \div 16) \o murmurDigit(a[4] % 16) \o murmurDigit(a[3] \div 16) \o murmurDigit(a[3] % 16)
  \o murmurDigit(a[2] \div 16) \o murmurDigit(a[2] % 16) \o murmurDigit(a[1] \div 16) \o murmurDigit(a[1] % 16)

\* The digest of the reference, as the 32 hexadecimal digits of h1 and h2
murmurDigest(h) == murmurHex(h.h1) \o murmurHex(h.h2)

\* The calls x64hash128(input, 0), one step of the function at a time. hash.ref is
\* a ghost: the state of the reference run on the UTF-8 bytes of the same input,
\* advanced with the function (its tail at the end of the loop).
HashInit ==
  /\ PipelineIdle
  /\ UnitsIdle
  /\ canon = NoCanon
  /\ hash \in {[st |-> "called", input |-> input] : input \in HashInputs}

\* Lines 369-378: the bytes, the lengths and the four accumulators, seed being 0
HashBegin ==
  /\ hash.st = "called"
  /\ LET key == getUTF8Bytes(hash.input)
         remainder == Len(key) % 16
     IN hash' = [st |-> "loop", input |-> hash.input, key |-> key,
                 length |-> <<int32(0), int32(Len(key))>>, remainder |-> remainder,
                 bytes |-> Len(key) - remainder,
                 h1 |-> <<int32(0), int32(0)>>, h2 |-> <<int32(0), int32(0)>>,
                 k1 |-> <<int32(0), int32(0)>>, k2 |-> <<int32(0), int32(0)>>,
                 val |-> <<int32(0), int32(0)>>, i |-> 0, c |-> 0,
                 ref |-> [h1 |-> murmurOf(0), h2 |-> murmurOf(0)]]
  /\ UNCHANGED <<pipeline, canon, units>>

\* Lines 379-400: one iteration of the loop
HashBlock ==
  /\ hash.st = "loop"
  /\ hash.i < hash.bytes
  /\ LET h == block(hash.key, hash.i, hash.h1, hash.h2)
     IN hash' = [hash EXCEPT !.h1 = h[1], !.h2 = h[2], !.i = hash.i + 16,
                             !.ref = murmurBlock(hash.ref, encode(hash.input), hash.i)]
  /\ UNCHANGED <<pipeline, canon, units>>

\* Lines 401-406: the loop is left, k1, k2 and val are zeroed and the switch is entered
\* at case remainder
HashLoopEnd ==
  /\ hash.st = "loop"
  /\ hash.i >= hash.bytes
  /\ LET data == encode(hash.input)
     IN hash' = [hash EXCEPT !.st = "switch", !.c = hash.remainder,
                             !.k1 = <<int32(0), int32(0)>>, !.k2 = <<int32(0), int32(0)>>,
                             !.val = <<int32(0), int32(0)>>,
                             !.ref = murmurTail(hash.ref, SubSeq(data, hash.i + 1, Len(data)))]
  /\ UNCHANGED <<pipeline, canon, units>>

\* Lines 407-487: one case of the switch, falling through to the next
HashCase ==
  /\ hash.st = "switch"
  /\ hash.c > 0
  /\ LET t == tailCase(hash.key, hash.i, hash.c,
                       [k1 |-> hash.k1, k2 |-> hash.k2, h1 |-> hash.h1, h2 |-> hash.h2,
                        val |-> hash.val])
     IN hash' = [hash EXCEPT !.k1 = t.k1, !.k2 = t.k2, !.h1 = t.h1, !.h2 = t.h2,
                             !.val = t.val, !.c = hash.c - 1]
  /\ UNCHANGED <<pipeline, canon, units>>

\* Lines 489-492: the length is mixed in
HashLength ==
  /\ hash.st = "switch"
  /\ hash.c = 0
  /\ LET h1 == x64Add(x64Xor(hash.h1, hash.length), x64Xor(hash.h2, hash.length))
     IN hash' = [hash EXCEPT !.st = "fmix", !.h1 = h1,
                             !.h2 = x64Add(x64Xor(hash.h2, hash.length), h1),
                             !.ref = murmurLength(hash.ref, Len(encode(hash.input)))]
  /\ UNCHANGED <<pipeline, canon, units>>

\* Lines 493-494
HashFmix ==
  /\ hash.st = "fmix"
  /\ hash' = [hash EXCEPT !.st = "last", !.h1 = x64Fmix(hash.h1), !.h2 = x64Fmix(hash.h2),
                          !.ref = murmurMix(hash.ref)]
  /\ UNCHANGED <<pipeline, canon, units>>

\* Lines 495-500: the last two sums and the four words in hexadecimal
HashReturn ==
  /\ hash.st = "last"
  /\ LET h1 == x64Add(hash.h1, hash.h2)
         h2 == x64Add(hash.h2, h1)
     IN hash' = [st |-> "returned", input |-> hash.input, h1 |-> h1, h2 |-> h2,
                 result |-> hexWord(h1[1]) \o hexWord(h1[2]) \o hexWord(h2[1]) \o hexWord(h2[2]),
                 ref |-> murmurLast(hash.ref)]
  /\ UNCHANGED <<pipeline, canon, units>>

HashNext ==
  \/ HashBegin
  \/ HashBlock
  \/ HashLoopEnd
  \/ HashCase
  \/ HashLength
  \/ HashFmix
  \/ HashReturn

HashSpec == HashInit /\ [][HashNext]_vars

\* The result object of makeLazyGetResult(components): its closure variable
\* visitorIdCache, the calls of hashComponents made for it (hashed) and what the reads of
\* visitorId returned (reads). hashComponents runs as componentsToCanonicalString and
\* then the steps of x64hash128 on the code units of the canonical string.
Undefined == [t |-> "undefined", n |-> 0, s |-> <<>>]

\* The components objects given to makeLazyGetResult: the empty one, one of one entry
\* and one whose canonical string is longer than a block of the hash
LazyComponents ==
  {<<>>,
   <<[key |-> <<"a">>, out |-> [value |-> Number(1), duration |-> 0]]>>,
   <<[key |-> <<"a", ":">>, out |-> [value |-> String(<<"|", ":">>), duration |-> 0]],
     [key |-> <<"b">>, out |-> [error |-> FirstError, duration |-> 0]],
     [key |-> <<"|">>, out |-> [value |-> Number(10), duration |-> 0]]>>}

\* What the host assigns to visitorId
AssignedIds == {Undefined, String(<<"a">>)}

LazyInit ==
  /\ PipelineIdle
  /\ OthersIdle("lazy")
  /\ canon = NoCanon
  /\ hash = NoHash
  /\ lazy \in {[st |-> "new", components |-> c] : c \in LazyComponents}

\* makeLazyGetResult(components) (lines 2987-3006); getConfidence is not part of this
makeLazyGetResult ==
  /\ lazy.st = "new"
  /\ lazy' = [st |-> "made", components |-> lazy.components, visitorIdCache |-> Undefined,
              hashed |-> 0, reads |-> <<>>, operations |-> 0]
  /\ UNCHANGED <<pipeline, canon, hash, conf, audio, screen, iframe, blockers, transform>>

\* get visitorId() (lines 2993-2998): the cache is returned, or hashComponents is called
\* with this.components
GetVisitorId ==
  /\ lazy.st = "made"
  /\ lazy.operations < MaxOperations
  /\ IF lazy.visitorIdCache = Undefined
     THEN LET str == componentsToCanonicalString(lazy.components)
          IN /\ lazy' = [lazy EXCEPT !.st = "hashing", !.hashed = lazy.hashed + 1,
                                     !.operations = lazy.operations + 1]
             /\ canon' = [st |-> "one", components |-> lazy.components, result |-> str]
             /\ hash' = [st |-> "called", input |-> [n \in 1..Len(str) |-> codeUnit(str[n])]]
     ELSE /\ lazy' = [lazy EXCEPT !.reads = Append(lazy.reads, lazy.visitorIdCache),
                                  !.operations = lazy.operations + 1]
          /\ UNCHANGED <<canon, hash>>
  /\ UNCHANGED <<pipeline, conf, audio, screen, iframe, blockers, transform>>

\* hashComponents has returned (lines 2995-2997): the hash is cached and returned
HashedVisitorId ==
  /\ lazy.st = "hashing"
  /\ hash.st = "returned"
  /\ lazy' = [lazy EXCEPT !.st = "made", !.visitorIdCache = String(hash.result),
                          !.reads = Append(lazy.reads, String(hash.result))]
  /\ UNCHANGED <<pipeline, canon, hash, conf, audio, screen, iframe, blockers, transform>>

\* set visitorId(visitorId) (lines 2999-3001)
SetVisitorId ==
  /\ lazy.st = "made"
  /\ lazy.operations < MaxOperations
  /\ \E visitorId \in AssignedIds :
       lazy' = [lazy EXCEPT !.visitorIdCache = visitorId, !.operations = lazy.operations + 1]
  /\ UNCHANGED <<pipeline, canon, hash, conf, audio, screen, iframe, blockers, transform>>

LazyNext ==
  \/ makeLazyGetResult
  \/ GetVisitorId
  \/ HashedVisitorId
  \/ SetVisitorId
  \/ HashNext

LazySpec == LazyInit /\ [][LazyNext]_vars

\* getConfidence(components). A score is counted in tenths (4 is 0.4), the score in the
\* comment in ten-thousandths. The browser is what isAndroid(), isWebKit(),
\* isDesktopWebKit(), isWebKit616OrNewer() and isSafariWebKit() answer.

\* /^prefix/.test(str)
startsWith(str, prefix) ==
  Len(str) >= Len(prefix) /\ SubSeq(str, 1, Len(prefix)) = prefix

\* (variant: a failed platform component is scored like Windows)
getOpenConfidenceScoreStrict(browser, platformComponent) ==
  IF browser.isAndroid THEN 4
  ELSE IF browser.isWebKit
  THEN (IF browser.isDesktopWebKit /\ ~(browser.isWebKit616OrNewer /\ browser.isSafariWebKit)
        THEN 5 ELSE 3)
  ELSE IF "value" \notin DOMAIN platformComponent THEN 6
  ELSE IF startsWith(platformComponent.value, <<"W", "i", "n">>) THEN 6
  ELSE IF startsWith(platformComponent.value, <<"M", "a", "c">>) THEN 5
  ELSE 7

\* getOpenConfidenceScore(components) (lines 2928-2956), of components.platform
getOpenConfidenceScore(browser, platformComponent) ==
  IF browser.isAndroid THEN 4
  ELSE IF browser.isWebKit
  THEN (IF browser.isDesktopWebKit /\ ~(browser.isWebKit616OrNewer /\ browser.isSafariWebKit)
        THEN 5 ELSE 3)
  ELSE LET platform == IF "value" \in DOMAIN platformComponent
                       THEN platformComponent.value ELSE <<>>
       IN IF startsWith(platform, <<"W", "i", "n">>) THEN 6
          ELSE IF startsWith(platform, <<"M", "a", "c">>) THEN 5
          ELSE 7

\* round(0.99 + 0.01 * openConfidenceScore, 0.0001) (lines 2958-2960)
deriveProConfidenceScore(openConfidenceScore) == 9900 + (10 * openConfidenceScore)

Browsers ==
  [isAndroid : BOOLEAN, isWebKit : BOOLEAN, isDesktopWebKit : BOOLEAN,
   isWebKit616OrNewer : BOOLEAN, isSafariWebKit : BOOLEAN]

\* What getPlatform() returns, among them strings that hold Win or Mac but not in front
Platforms ==
  {<<>>, <<"W", "i", "n", "3", "2">>, <<"W", "i", "n">>, <<"M", "a", "c", "I">>,
   <<"i", "P", "a", "d">>, <<"L", "i", "n", "u", "x">>, <<"w", "i", "n">>,
   <<"a", "W", "i", "n">>, <<"M", "a">>, <<"i", "M", "a", "c">>}

\* components.platform: a value, or the error the source threw
PlatformComponents ==
  {[value |-> v, duration |-> 0] : v \in Platforms}
  \cup {[error |-> FirstError, duration |-> 0]}

ConfInit ==
  /\ PipelineIdle
  /\ OthersIdle("conf")
  /\ canon = NoCanon
  /\ hash = NoHash
  /\ conf \in {[st |-> "called", browser |-> b, platform |-> c] :
                 b \in Browsers, c \in PlatformComponents}

\* getConfidence(components) (lines 2923-2927)
getConfidence ==
  /\ conf.st = "called"
  /\ LET openConfidenceScore == getOpenConfidenceScore(conf.browser, conf.platform)
     IN conf' = [st |-> "returned", browser |-> conf.browser, platform |-> conf.platform,
                 score |-> openConfidenceScore,
                 comment |-> deriveProConfidenceScore(openConfidenceScore)]
  /\ UNCHANGED <<pipeline, canon, hash, lazy, audio, screen, iframe, blockers, transform>>

ConfSpec == ConfInit /\ [][getConfidence]_vars

\* startRenderingAudio(context) (lines 991-1055). resultPromise is "pending" or what
\* it settled with; startedRunningAt is 0 or 1, 1 standing for any time of the clock;
\* a timer is a callback given to setTimeout that has not run yet. The host decides
\* what context.startRendering() does, what context.state and document.hidden are at
\* each attempt, and whether the rendering completes. tries is the source-independent
\* log of the attempts: how many found the context suspended with the document
\* visible, whether one found it running, and the parity of their number (so that
\* every attempt is a step).

\* resolve(value) or reject(error) of resultPromise: the first call settles it
settled(promise, outcome) == IF promise = "pending" THEN outcome ELSE promise

\* (variant: an attempt counts also when the document is hidden)
countedTryAlways(renderTryCount, hidden) == renderTryCount + 1

\* if (!document.hidden) renderTryCount++ (lines 1028-1030)
countedTry(renderTryCount, hidden) == IF ~hidden THEN renderTryCount + 1 ELSE renderTryCount

\* startRunningTimeout() (lines 1002-1004): the timer that rejects with 'timeout' is set
startRunningTimeout(a) == [a EXCEPT !.timeoutTimer = TRUE]

\* renderTryMaxCount (line 992)
renderTryMaxCount == 3

\* tryRender() (lines 1005-1043): context.startRendering() throws ("throw") or
\* context.state is state after it
tryRender(a, state, hidden) ==
  IF state = "throw" THEN [a EXCEPT !.resultPromise = settled(@, "error")]
  ELSE IF state = "running"
  THEN LET b == [a EXCEPT !.startedRunningAt = 1]
       IN IF a.isFinalized THEN startRunningTimeout(b) ELSE b
  ELSE IF state = "suspended"
  THEN LET b == [a EXCEPT !.renderTryCount = countedTry(@, hidden)]
       IN IF b.isFinalized /\ b.renderTryCount >= renderTryMaxCount
          THEN [b EXCEPT !.resultPromise = settled(@, "suspended")]
          ELSE [b EXCEPT !.retryTimer = TRUE]
  ELSE a

\* The log of the attempts after one more
triedOnce(tries, state, hidden) ==
  [visible |-> IF state = "suspended" /\ ~hidden /\ tries.visible < 3
               THEN tries.visible + 1 ELSE tries.visible,
   running |-> tries.running \/ state = "running",
   finalized |-> tries.finalized,
   parity |-> 1 - tries.parity]

\* What an attempt can find: the context is closed only once the rendering has completed
Attempts(a) ==
  {"throw", "running", "suspended"} \cup (IF a.rendering = "no" THEN {} ELSE {"closed"})

\* The attempts the model follows: renderTryCount is counted up to MaxRenderTries
\* before finalize() is called
Followed(a, state, hidden) ==
  a.isFinalized \/ state # "suspended" \/ hidden \/ a.renderTryCount < MaxRenderTries

\* The locals of startRenderingAudio (lines 996-1000), before the executor has run
NewAudio ==
  [st |-> "new", resultPromise |-> "pending", isFinalized |-> FALSE,
   renderTryCount |-> 0, startedRunningAt |-> 0,
   retryTimer |-> FALSE, timeoutTimer |-> FALSE, rendering |-> "no",
   tries |-> [visible |-> 0, running |-> FALSE, finalized |-> FALSE, parity |-> 0]]

AudioInit ==
  /\ PipelineIdle
  /\ OthersIdle("audio")
  /\ canon = NoCanon
  /\ hash = NoHash
  /\ audio = NewAudio

\* startRenderingAudio(context) is called: the executor runs up to the end of the first
\* tryRender(), and the function returns (lines 997-1054)
startRenderingAudio ==
  /\ audio.st = "new"
  /\ \E state \in {"throw", "running", "suspended"}, hidden \in BOOLEAN :
       audio' = [tryRender([audio EXCEPT !.st = "started"], state, hidden)
                 EXCEPT !.tries = triedOnce(@, state, hidden)]
  /\ UNCHANGED <<pipeline, canon, hash, lazy, conf, screen, iframe, blockers, transform>>

\* setTimeout(tryRender, renderRetryDelay) fires (line 1035)
RetryTimer ==
  /\ audio.st = "started"
  /\ audio.retryTimer
  /\ \E state \in Attempts(audio), hidden \in BOOLEAN :
       /\ Followed(audio, state, hidden)
       /\ audio' = [tryRender([audio EXCEPT !.retryTimer = FALSE], state, hidden)
                    EXCEPT !.tries = triedOnce(@, state, hidden)]
  /\ UNCHANGED <<pipeline, canon, hash, lazy, conf, screen, iframe, blockers, transform>>

\* finalize() is called (lines 1045-1052)
finalize ==
  /\ audio.st = "started"
  /\ audio' = IF ~audio.isFinalized
              THEN LET a == [audio EXCEPT !.isFinalized = TRUE, !.tries.finalized = TRUE]
                   IN IF a.startedRunningAt > 0 THEN startRunningTimeout(a) ELSE a
              ELSE audio
  /\ UNCHANGED <<pipeline, canon, hash, lazy, conf, screen, iframe, blockers, transform>>

\* The timer of startRunningTimeout fires (line 1003)
TimeoutTimer ==
  /\ audio.st = "started"
  /\ audio.timeoutTimer
  /\ audio' = [audio EXCEPT !.timeoutTimer = FALSE, !.resultPromise = settled(@, "timeout")]
  /\ UNCHANGED <<pipeline, canon, hash, lazy, conf, screen, iframe, blockers, transform>>

\* The host has rendered the audio: the complete event is queued
RenderingCompletes ==
  /\ audio.st = "started"
  /\ audio.rendering = "no"
  /\ audio.tries.running
  /\ audio' = [audio EXCEPT !.rendering = "completed"]
  /\ UNCHANGED <<pipeline, canon, hash, lazy, conf, screen, iframe, blockers, transform>>

\* context.oncomplete (line 1001)
OnComplete ==
  /\ audio.st = "started"
  /\ audio.rendering = "completed"
  /\ audio' = [audio EXCEPT !.rendering = "delivered", !.resultPromise = settled(@, "buffer")]
  /\ UNCHANGED <<pipeline, canon, hash, lazy, conf, screen, iframe, blockers, transform>>

AudioNext ==
  \/ startRenderingAudio
  \/ RetryTimer
  \/ finalize
  \/ TimeoutTimer
  \/ RenderingCompletes
  \/ OnComplete

AudioSpec == AudioInit /\ [][AudioNext]_vars

\* The timers fire and a queued event is delivered
AudioFairSpec ==
  AudioSpec /\ WF_vars(RetryTimer) /\ WF_vars(TimeoutTimer) /\ WF_vars(OnComplete)

\* The screen frame (lines 1583-1681). screenFrameBackup and screenFrameSizeTimeoutId
\* are the module's variables (lines 1586-1587); the timer id is modelled by whether the
\* timer is set. frame and fullscreen are the host's: what getCurrentScreenFrame() and
\* getFullscreenElement() return now. A side of a frame is a number or null.
\* seen, called, returned and after are the source-independent record of the run:
\* whether a reading found a side that is a number other than 0, how many getter calls
\* were made, what the last finished call returned, and whether that call was made
\* after seen. One call at a time waits for exitFullscreen().

\* Frames getCurrentScreenFrame() (lines 1660-1673) returns in the model
ScreenFrames ==
  {<<Null, Null, Null, Null>>,
   <<Number(0), Number(0), Number(0), Number(0)>>,
   <<Null, Number(0), Number(0), Null>>,
   <<Number(0), Number(0), Number(1), Number(0)>>,
   <<Number(2), Null, Number(0), Number(0)>>,
   <<Number(1), Number(1), Number(1), Number(1)>>}

\* (variant: a side counts as soon as it is not null)
isFrameSizeNullOnly(frameSize) == \A i \in 1..4 : frameSize[i] = Null

\* isFrameSizeNull(frameSize) (lines 1674-1681): no side is truthy
isFrameSizeNull(frameSize) ==
  \A i \in 1..4 : ~(frameSize[i].t = "number" /\ frameSize[i].n # 0)

\* checkScreenFrame() (lines 1599-1608)
checkScreenFrame(sc) ==
  IF isFrameSizeNull(sc.frame)
  THEN [sc EXCEPT !.timer = TRUE]
  ELSE [sc EXCEPT !.screenFrameBackup = sc.frame, !.timer = FALSE]

\* The record of the run after a reading of the current frame
reading(sc) ==
  [sc EXCEPT !.seen = @ \/ \E i \in 1..4 : sc.frame[i] \notin {Null, Number(0)}]

\* The end of the getter (lines 1633-1636) with frameSize the frame it read
getterEnd(sc, frameSize, after) ==
  [(IF ~isFrameSizeNull(frameSize) THEN [sc EXCEPT !.screenFrameBackup = frameSize] ELSE sc)
   EXCEPT !.returned = frameSize, !.after = after]

ScreenInit ==
  /\ PipelineIdle
  /\ OthersIdle("screen")
  /\ canon = NoCanon
  /\ hash = NoHash
  /\ \E f \in ScreenFrames, fs \in BOOLEAN :
       screen = [st |-> "module", screenFrameBackup |-> Undefined, timer |-> FALSE,
                 frame |-> f, fullscreen |-> fs, awaiting |-> FALSE,
                 seen |-> FALSE, called |-> 0, returned |-> Undefined, after |-> FALSE]

\* getUnstableScreenFrame() (lines 1617-1638) is called: watchScreenFrame() (lines
\* 1595-1610) starts the watch unless its timer is set, and the getter is returned
getUnstableScreenFrame ==
  /\ screen.st \in {"module", "watching"}
  /\ screen' = IF screen.timer
               THEN [screen EXCEPT !.st = "watching"]
               ELSE reading(checkScreenFrame([screen EXCEPT !.st = "watching"]))
  /\ UNCHANGED <<pipeline, canon, hash, lazy, conf, audio, iframe, blockers, transform>>

\* setTimeout(checkScreenFrame, screenFrameCheckInterval) fires (line 1602)
CheckTimer ==
  /\ screen.st = "watching"
  /\ screen.timer
  /\ screen' = reading(checkScreenFrame([screen EXCEPT !.timer = FALSE]))
  /\ UNCHANGED <<pipeline, canon, hash, lazy, conf, audio, iframe, blockers, transform>>

\* The host changes the screen frame or the fullscreen element
ScreenChanges ==
  /\ screen.st \in {"module", "watching"}
  /\ \E f \in ScreenFrames, fs \in BOOLEAN :
       /\ <<f, fs>> # <<screen.frame, screen.fullscreen>>
       /\ screen' = [screen EXCEPT !.frame = f, !.fullscreen = fs]
  /\ UNCHANGED <<pipeline, canon, hash, lazy, conf, audio, iframe, blockers, transform>>

\* The getter is called (lines 1619-1637) and runs up to its return or to
\* await exitFullscreen() (line 1629)
ScreenGetter ==
  /\ screen.st = "watching"
  /\ screen.called < MaxGetterCalls
  /\ LET sc == reading([screen EXCEPT !.called = @ + 1])
     IN IF isFrameSizeNull(sc.frame)
        THEN IF sc.screenFrameBackup # Undefined
             THEN screen' = [sc EXCEPT !.returned = sc.screenFrameBackup, !.after = screen.seen]
             ELSE IF sc.fullscreen
             THEN ~sc.awaiting /\ screen' = [sc EXCEPT !.awaiting = TRUE]
             ELSE screen' = getterEnd(sc, sc.frame, screen.seen)
        ELSE screen' = getterEnd(sc, sc.frame, screen.seen)
  /\ UNCHANGED <<pipeline, canon, hash, lazy, conf, audio, iframe, blockers, transform>>

\* exitFullscreen() is fulfilled and the getter goes on (lines 1630-1636), or it is
\* rejected and so is the getter's promise
ScreenGetterResumes ==
  /\ screen.st = "watching"
  /\ screen.awaiting
  /\ \/ screen' = getterEnd(reading([screen EXCEPT !.awaiting = FALSE, !.fullscreen = FALSE]),
                            screen.frame, FALSE)
     \/ screen' = [screen EXCEPT !.awaiting = FALSE]
  /\ UNCHANGED <<pipeline, canon, hash, lazy, conf, audio, iframe, blockers, transform>>

ScreenNext ==
  \/ getUnstableScreenFrame
  \/ CheckTimer
  \/ ScreenChanges
  \/ ScreenGetter
  \/ ScreenGetterResumes

ScreenSpec == ScreenInit /\ [][ScreenNext]_vars

\* withIframe(action, initialHtml, domPollInterval) (lines 1079-1143). pc is where the
\* async function stands; loadPromise is the promise of lines 1088-1134 and isComplete
\* its flag; timer says whether setTimeout(checkReadyState, 10) is set; attached says
\* whether the iframe has a parent node. The host's part: dbody (document.body exists),
\* loadFired (the iframe's load event was fired), readyState and body (of the iframe's
\* document). late records, apart from isComplete, that a timer was set while
\* loadPromise was settled. outcome is "pending" or how withIframe's promise settled:
\* fulfilled, rejected with a rejection it awaited, or with what the action threw.

\* (variant: the polling does not look at isComplete)
checkReadyStateAlways(f) ==
  IF f.readyState = "complete"
  THEN [f EXCEPT !.isComplete = TRUE, !.loadPromise = settled(@, "fulfilled")]
  ELSE [f EXCEPT !.timer = TRUE]

\* checkReadyState() (lines 1116-1132), with resolve() of lines 1090-1093
checkReadyState(f) ==
  IF f.isComplete THEN f
  ELSE IF f.readyState = "complete"
  THEN [f EXCEPT !.isComplete = TRUE, !.loadPromise = settled(@, "fulfilled")]
  ELSE [f EXCEPT !.timer = TRUE]

\* The finally block (lines 1140-1142) and the settling of withIframe's promise
removeAndSettle(f, outcome) == [f EXCEPT !.attached = FALSE, !.pc = "settled", !.outcome = outcome]

\* The loop of lines 1135-1137 and the call of the action (line 1138)
callWhenBody(f) == IF f.body THEN [f EXCEPT !.pc = "action"] ELSE [f EXCEPT !.pc = "waitIframeBody"]

IframeInit ==
  /\ PipelineIdle
  /\ OthersIdle("iframe")
  /\ canon = NoCanon
  /\ hash = NoHash
  /\ \E dbody \in BOOLEAN, initialHtml \in {"", "html"} :
       iframe = [st |-> "called", pc |-> "waitBody", dbody |-> dbody, attached |-> FALSE,
                 initialHtml |-> initialHtml, srcdoc |-> "", src |-> "",
                 isComplete |-> FALSE, loadPromise |-> "pending", timer |-> FALSE,
                 loadFired |-> FALSE, readyState |-> "loading", body |-> FALSE,
                 outcome |-> "pending", late |-> FALSE]

\* document.body appears while withIframe polls for it (lines 1083-1085)
DocumentBody ==
  /\ iframe.st = "called"
  /\ iframe.pc = "waitBody"
  /\ ~iframe.dbody
  /\ iframe' = [iframe EXCEPT !.dbody = TRUE]
  /\ UNCHANGED <<pipeline, canon, hash, lazy, conf, audio, screen, blockers, transform>>

\* The iframe is created and the executor of loadPromise runs (lines 1086-1133)
CreateIframe ==
  /\ iframe.st = "called"
  /\ iframe.pc = "waitBody"
  /\ iframe.dbody
  /\ \E readyState \in {"loading", "complete"}, hasSrcdoc \in BOOLEAN :
       iframe' = checkReadyState([iframe EXCEPT
                   !.pc = "loading", !.attached = TRUE, !.readyState = readyState,
                   !.srcdoc = IF iframe.initialHtml # "" /\ hasSrcdoc THEN iframe.initialHtml ELSE @,
                   !.src = IF iframe.initialHtml # "" /\ hasSrcdoc THEN @ ELSE "about:blank"])
  /\ UNCHANGED <<pipeline, canon, hash, lazy, conf, audio, screen, blockers, transform>>

\* The host goes on loading the iframe: its document gets a body or becomes complete
IframeLoads ==
  /\ iframe.st = "called"
  /\ iframe.attached
  /\ \/ ~iframe.body /\ iframe' = [iframe EXCEPT !.body = TRUE]
     \/ iframe.readyState = "loading" /\ iframe' = [iframe EXCEPT !.readyState = "complete"]
  /\ UNCHANGED <<pipeline, canon, hash, lazy, conf, audio, screen, blockers, transform>>

\* iframe.onload (line 1098) or iframe.onerror (line 1099) is called
IframeEvent ==
  /\ iframe.st = "called"
  /\ iframe.attached
  /\ ~iframe.loadFired
  /\ \/ iframe' = [iframe EXCEPT !.loadFired = TRUE, !.isComplete = TRUE,
                                 !.loadPromise = settled(@, "fulfilled")]
     \/ /\ iframe.readyState = "loading"
        /\ iframe' = [iframe EXCEPT !.isComplete = TRUE, !.loadPromise = settled(@, "rejected")]
  /\ UNCHANGED <<pipeline, canon, hash, lazy, conf, audio, screen, blockers, transform>>

\* setTimeout(checkReadyState, 10) fires (line 1130)
ReadyStateTimer ==
  /\ iframe.st = "called"
  /\ iframe.timer
  /\ iframe' = [checkReadyState([iframe EXCEPT !.timer = FALSE])
                EXCEPT !.late = @ \/ (iframe.loadPromise # "pending"
                                        /\ checkReadyState([iframe EXCEPT !.timer = FALSE]).timer)]
  /\ UNCHANGED <<pipeline, canon, hash, lazy, conf, audio, screen, blockers, transform>>

\* await of loadPromise ends (line 1088): on to the body loop, or to finally
LoadAwaited ==
  /\ iframe.st = "called"
  /\ iframe.pc = "loading"
  /\ iframe.loadPromise # "pending"
  /\ iframe' = IF iframe.loadPromise = "fulfilled"
               THEN callWhenBody(iframe)
               ELSE removeAndSettle(iframe, "rejected")
  /\ UNCHANGED <<pipeline, canon, hash, lazy, conf, audio, screen, blockers, transform>>

\* wait(domPollInterval) ends (line 1136)
IframeBodyPoll ==
  /\ iframe.st = "called"
  /\ iframe.pc = "waitIframeBody"
  /\ iframe.body
  /\ iframe' = callWhenBody(iframe)
  /\ UNCHANGED <<pipeline, canon, hash, lazy, conf, audio, screen, blockers, transform>>

\* The action returns a value, throws, or its promise settles (line 1138)
ActionEnds ==
  /\ iframe.st = "called"
  /\ iframe.pc = "action"
  /\ \E outcome \in {"fulfilled", "rejected", "thrown"} : iframe' = removeAndSettle(iframe, outcome)
  /\ UNCHANGED <<pipeline, canon, hash, lazy, conf, audio, screen, blockers, transform>>

IframeNext ==
  \/ DocumentBody
  \/ CreateIframe
  \/ IframeLoads
  \/ IframeEvent
  \/ ReadyStateTimer
  \/ LoadAwaited
  \/ IframeBodyPoll
  \/ ActionEnds

IframeSpec == IframeInit /\ [][IframeNext]_vars

\* getDomBlockers (lines 2132-2150) and getBlockedSelectors (lines 2155-2193). The
\* host's part: applicable (isWebKit() || isAndroid()), dbody (document.body exists),
\* offsetParent (which test elements have one) and throwsAt (the element whose reading
\* throws, 0 for none). pc is where the two async functions stand, attached whether
\* root has a parent node, i the loop variable of lines 2182-2186.

\* getFilters() (lines 1859-2122), cut down to three filters of 5, 2 and 1 selectors,
\* in the order of the source; a selector is a number
Filters ==
  <<[key |-> <<"a", "b">>, selectors |-> <<1, 2, 3, 4, 5>>],
    [key |-> <<"b", "o">>, selectors |-> <<6, 7>>],
    [key |-> <<"r", "o">>, selectors |-> <<8>>]>>

\* allSelectors (line 2138)
allSelectors == Filters[1].selectors \o Filters[2].selectors \o Filters[3].selectors

\* (variant: at least 60% is enough)
isActiveFrom(blockedCount, length) == 10 * blockedCount >= length * 6

\* blockedCount > selectors.length * 0.6 (line 2146)
isActive(blockedCount, length) == 10 * blockedCount > length * 6

\* countTruthy(selectors.map((selector) => blockedSelectors[selector])) (line 2145)
RECURSIVE countTruthy(_, _)
countTruthy(selectors, blockedSelectors) ==
  IF selectors = <<>> THEN 0
  ELSE (IF Head(selectors) \in blockedSelectors THEN 1 ELSE 0)
         + countTruthy(Tail(selectors), blockedSelectors)

\* filterNames.filter(...) (lines 2143-2147), over the filters from the n-th on
RECURSIVE activeBlockers(_, _)
activeBlockers(n, blockedSelectors) ==
  IF n > Len(Filters) THEN <<>>
  ELSE (IF isActive(countTruthy(Filters[n].selectors, blockedSelectors), Len(Filters[n].selectors))
        THEN <<Filters[n].key>> ELSE <<>>)
         \o activeBlockers(n + 1, blockedSelectors)

BlockersInit ==
  /\ PipelineIdle
  /\ OthersIdle("blockers")
  /\ canon = NoCanon
  /\ hash = NoHash
  /\ \E applicable, dbody \in BOOLEAN, offsetParent \in SUBSET (1..Len(allSelectors)),
        throwsAt \in {0, 3, 8} :
       blockers = [st |-> "called", pc |-> "start", applicable |-> applicable, dbody |-> dbody,
                   offsetParent |-> offsetParent, throwsAt |-> throwsAt,
                   attached |-> FALSE, appended |-> FALSE, i |-> 0, blockedSelectors |-> {},
                   outcome |-> "pending", result |-> <<>>]

\* getDomBlockers up to its await (lines 2132-2139), getBlockedSelectors up to its
\* first await or to the try (lines 2155-2179)
getDomBlockers ==
  /\ blockers.st = "called"
  /\ blockers.pc = "start"
  /\ blockers' = IF ~blockers.applicable
                 THEN [blockers EXCEPT !.pc = "returned", !.outcome = "undefined"]
                 ELSE IF ~blockers.dbody
                 THEN [blockers EXCEPT !.pc = "waitBody"]
                 ELSE [blockers EXCEPT !.pc = "try", !.attached = TRUE, !.appended = TRUE]
  /\ UNCHANGED <<pipeline, canon, hash, lazy, conf, audio, screen, iframe, transform>>

\* wait(50) ends (lines 2176-2179); the host may have made document.body
BodyPoll ==
  /\ blockers.st = "called"
  /\ blockers.pc = "waitBody"
  /\ \/ ~blockers.dbody /\ blockers' = [blockers EXCEPT !.dbody = TRUE]
     \/ blockers.dbody
          /\ blockers' = [blockers EXCEPT !.pc = "try", !.attached = TRUE, !.appended = TRUE]
  /\ UNCHANGED <<pipeline, canon, hash, lazy, conf, audio, screen, iframe, transform>>

\* One turn of the loop of lines 2182-2186, or its end
CheckElement ==
  /\ blockers.st = "called"
  /\ blockers.pc = "try"
  /\ blockers' =
       IF blockers.i = Len(allSelectors) THEN [blockers EXCEPT !.pc = "finally"]
       ELSE IF blockers.i + 1 = blockers.throwsAt THEN [blockers EXCEPT !.pc = "finallyThrown"]
       ELSE [blockers EXCEPT
               !.i = @ + 1,
               !.blockedSelectors = IF (blockers.i + 1) \notin blockers.offsetParent
                                    THEN @ \cup {allSelectors[blockers.i + 1]} ELSE @]
  /\ UNCHANGED <<pipeline, canon, hash, lazy, conf, audio, screen, iframe, transform>>

\* The finally block (lines 2188-2191), then getBlockedSelectors returns or throws
RemoveRoot ==
  /\ blockers.st = "called"
  /\ blockers.pc \in {"finally", "finallyThrown"}
  /\ blockers' = IF blockers.pc = "finally"
                 THEN [blockers EXCEPT !.attached = FALSE, !.pc = "filter"]
                 ELSE [blockers EXCEPT !.attached = FALSE, !.pc = "returned", !.outcome = "rejected"]
  /\ UNCHANGED <<pipeline, canon, hash, lazy, conf, audio, screen, iframe, transform>>

\* getDomBlockers goes on after its await (lines 2140-2149)
ReturnBlockers ==
  /\ blockers.st = "called"
  /\ blockers.pc = "filter"
  /\ blockers' = [blockers EXCEPT !.pc = "returned", !.outcome = "array",
                    !.result = sortKeys(activeBlockers(1, blockers.blockedSelectors))]
  /\ UNCHANGED <<pipeline, canon, hash, lazy, conf, audio, screen, iframe, transform>>

BlockersNext ==
  \/ getDomBlockers
  \/ BodyPoll
  \/ CheckElement
  \/ RemoveRoot
  \/ ReturnBlockers

BlockersSpec == BlockersInit /\ [][BlockersNext]_vars

\* transformSource(source, transformValue) (lines 599-619). What a call returns is a
\* record: [k |-> "value", v |-> n], [k |-> "throw"] for a call that throws,
\* [k |-> "function", returns |-> r] for a function whose call returns r, and
\* [k |-> "promise", to |-> r] for a promise that settles to r, r being
\* [k |-> "rejected"] for a rejection. transformValue adds shift to a value, and makes
\* the value 0 of anything else. pc is how far the transformed source was used;
\* loadResult is what the transformed source returned and getResult what the
\* function it led to returned.

StageValues == {[k |-> "value", v |-> 1], [k |-> "value", v |-> 2]}
Thrown == [k |-> "throw"]
Rejected == [k |-> "rejected"]

\* What the "get" stage of a source does when called
GetResults == StageValues \cup {Thrown} \cup {[k |-> "promise", to |-> r] : r \in StageValues \cup {Rejected}}

\* What a source does when called
LoadResults ==
  LET functions == {[k |-> "function", returns |-> r] : r \in GetResults}
  IN StageValues \cup {Thrown} \cup functions
       \cup {[k |-> "promise", to |-> r] : r \in StageValues \cup {Rejected} \cup functions}

transformValue(value, shift) ==
  IF value.k = "value" THEN [k |-> "value", v |-> value.v + shift] ELSE [k |-> "value", v |-> 0]

\* The function of lines 604-610 called: what it returns
transformedGet(loadResult, shift) ==
  LET getResult == loadResult.returns
  IN IF getResult.k = "throw" THEN getResult
     ELSE IF isPromise(getResult.k)
     THEN [k |-> "promise",
           to |-> IF getResult.to = Rejected THEN Rejected ELSE transformValue(getResult.to, shift)]
     ELSE transformValue(getResult, shift)

\* (variant: the load result is transformed whatever it is)
transformLoadResultEager(loadResult, shift) == transformValue(loadResult, shift)

\* transformLoadResult(loadResult) (lines 600-611)
transformLoadResult(loadResult, shift) ==
  IF isFinalResultLoaded(loadResult.k)
  THEN transformValue(loadResult, shift)
  ELSE [k |-> "function", returns |-> transformedGet(loadResult, shift)]

\* The transformed source called (lines 612-618): what it returns
transformed(source, shift) ==
  IF source.k = "throw" THEN source
  ELSE IF isPromise(source.k)
  THEN [k |-> "promise",
        to |-> IF source.to = Rejected THEN Rejected ELSE transformLoadResult(source.to, shift)]
  ELSE transformLoadResult(source, shift)

TransformInit ==
  /\ PipelineIdle
  /\ OthersIdle("transform")
  /\ canon = NoCanon
  /\ hash = NoHash
  /\ \E source \in LoadResults, shift \in {10, 20} :
       transform = [st |-> "made", pc |-> "made", source |-> source, shift |-> shift,
                    loadResult |-> Undefined, getResult |-> Undefined, calls |-> 0]

\* The transformed source is called (lines 612-618)
CallTransformed ==
  /\ transform.st = "made"
  /\ transform.pc = "made"
  /\ LET result == transformed(transform.source, transform.shift)
     IN transform' = [transform EXCEPT
          !.loadResult = result,
          !.pc = IF result.k = "promise" THEN "loading"
                 ELSE IF result.k = "function" THEN "loaded" ELSE "done"]
  /\ UNCHANGED <<pipeline, canon, hash, lazy, conf, audio, screen, iframe, blockers>>

\* The promise the transformed source returned settles
TransformedLoads ==
  /\ transform.st = "made"
  /\ transform.pc = "loading"
  /\ transform' = [transform EXCEPT
       !.pc = IF transform.loadResult.to.k = "function" THEN "loaded" ELSE "done"]
  /\ UNCHANGED <<pipeline, canon, hash, lazy, conf, audio, screen, iframe, blockers>>

\* The "get" stage function of the transformed source is called (lines 604-610)
CallTransformedGet ==
  /\ transform.st = "made"
  /\ transform.pc = "loaded"
  /\ transform.calls < MaxGetterCalls
  /\ LET function == IF transform.loadResult.k = "promise"
                     THEN transform.loadResult.to ELSE transform.loadResult
     IN transform' = [transform EXCEPT !.getResult = function.returns, !.calls = @ + 1]
  /\ UNCHANGED <<pipeline, canon, hash, lazy, conf, audio, screen, iframe, blockers>>

TransformNext ==
  \/ CallTransformed
  \/ TransformedLoads
  \/ CallTransformedGet

TransformSpec == TransformInit /\ [][TransformNext]_vars

----------------------------------------------------------------------------
\* Properties

\* getComponents() has resolved
Done == get.st = "done"

OutKind(o) == IF "error" \in DOMAIN o THEN "error" ELSE "value"
OutArg(o) == IF "error" \in DOMAIN o THEN o.error ELSE o.value

\* The registered keys that are not excluded, in registration order
ExpectedKeys == SelectSeq(KeysOf, LAMBDA k : k \notin Range(excludeSources))

\* The first stage of source k returned or threw on the spot
SyncLoad(k) == probe[k].ret1 \in {"value", "throw", "function"}

\* C1: whatever the order in which the sources complete, the keys of the components
\* object are the included source keys in registration order, and the component stored
\* under a key was produced by the source registered under that key.
C1_RegistrationOrder ==
  Done =>
    /\ includedSources = ExpectedKeys
    /\ Len(components) = Len(ExpectedKeys)
    /\ \A idx \in 1..Len(ExpectedKeys) :
         /\ components[idx].key = ExpectedKeys[idx]
         /\ OutArg(components[idx].out)[1] = components[idx].key

\* C1 witness: both sources included, the second completed in the load pass and the
\* first only when the promise of its get stage settled, after the second.
C1_Witness ==
  /\ Done
  /\ Len(components) = 2
  /\ probe[components[1].key].ret2 = "promise"
  /\ probe[components[2].key].ret1 = "value"

\* C2: a failure of a source in either stage never leaves the getter of loadSource:
\* neither sourceLoadPromise nor the promise the getter returned is ever rejected, and
\* the getter's promise is fulfilled with the outcome {error, duration}.
C2_FailureIsOutcome ==
  /\ \A k \in SourceKeys : src[k].st # "rejected"
  /\ \A idx \in 1..Len(map1.results) :
       /\ comp[idx].st # "rejected"
       /\ (comp[idx].st = "fulfilled" /\ probe[map1.results[idx]].kind = "error") =>
            /\ DOMAIN comp[idx].out = {"error", "duration"}
            /\ comp[idx].out.error = Payload(map1.results[idx], probe[map1.results[idx]].stage)

\* C2 witness: one getter fulfilled after the promise of the first stage rejected, another
\* after the promise of the get stage rejected.
C2_Witness ==
  \E i, j \in 1..Len(map1.results) :
    /\ comp[i].st = "fulfilled" /\ comp[j].st = "fulfilled"
    /\ LET p == probe[map1.results[i]]
           q == probe[map1.results[j]]
       IN /\ p.ret1 = "promise" /\ p.stage = 1 /\ p.kind = "error"
          /\ q.ret2 = "promise" /\ q.stage = 2 /\ q.kind = "error"

\* C3: whichever sources fail, no pass stops early: getComponents() is never rejected,
\* the load pass calls every included source, the get pass calls every getter, and the
\* resolved object has a component for every included source.
C3_NoPassAborts ==
  /\ get.st # "rejected"
  /\ map1.st = "done" =>
       /\ map1.results = includedSources
       /\ \A k \in Range(includedSources) : probe[k].calls1 >= 1
  /\ get.st \in {"awaitMap", "awaitAll", "allQueued", "done"} =>
       \A idx \in 1..Len(includedSources) : comp[idx].st # "none"
  /\ Done =>
       /\ Len(components) = Len(includedSources)
       /\ \A idx \in 1..Len(includedSources) :
            /\ components[idx].key = includedSources[idx]
            /\ "duration" \in DOMAIN components[idx].out

\* C3 witness: every source failed, and getComponents() resolved with a component each.
C3_Witness ==
  /\ Done
  /\ Len(components) = NumSources
  /\ \A k \in SourceKeys : probe[k].kind = "error"

\* C4: the value or error stored for a source is what that source itself produced, so
\* it is the same whether any other source fails or not, and no component is missing.
C4_OtherComponentsUnchanged ==
  Done =>
    /\ Len(components) = Len(includedSources)
    /\ \A k \in Range(includedSources) : \A idx \in 1..Len(includedSources) :
         includedSources[idx] # k =>
           LET j == includedSources[idx]
           IN /\ components[idx].key = j
              /\ OutKind(components[idx].out) = probe[j].kind
              /\ OutArg(components[idx].out) = Payload(j, probe[j].stage)

\* C4 witness: a source failed and the component of another one holds its value.
C4_Witness ==
  /\ Done
  /\ \E i, j \in 1..Len(components) :
       /\ probe[components[i].key].kind = "error"
       /\ probe[components[j].key].kind = "value"
       /\ OutKind(components[j].out) = "value"

\* C5: an excluded source is never called, in either stage, and the keys of the
\* components object are the registered keys minus the excluded ones, each once.
C5_ExcludedNeverRun ==
  /\ \A k \in Range(excludeSources) \cap SourceKeys :
         probe[k].calls1 = 0 /\ probe[k].calls2 = 0 /\ src[k].st = "idle"
  /\ Done =>
       /\ {components[idx].key : idx \in 1..Len(components)} = SourceKeys \ Range(excludeSources)
       /\ Cardinality({components[idx].key : idx \in 1..Len(components)}) = Len(components)

\* C5 witness: a run with a source excluded resolved with the other sources' components.
C5_Witness ==
  /\ Done
  /\ excludeSources # <<>>
  /\ Len(components) = NumSources - Len(excludeSources)
  /\ Len(components) >= 1

\* An outcome has a duration and exactly one of value and error
WellFormed(o) ==
  /\ "duration" \in DOMAIN o
  /\ ("value" \in DOMAIN o) # ("error" \in DOMAIN o)
  /\ DOMAIN o \subseteq {"value", "error", "duration"}

\* C6: every outcome loadSource produces has a duration and exactly one of value and
\* error.
C6_OneOfValueError ==
  /\ \A idx \in 1..NumSources : comp[idx].st \in {"adopt", "fulfilled"} => WellFormed(comp[idx].out)
  /\ \A idx \in 1..Len(components) : WellFormed(components[idx].out)

\* C6 witness: a first-stage failure, and a get stage that succeeded, side by side.
C6_Witness ==
  \E i, j \in 1..NumSources :
    /\ comp[i].st = "fulfilled" /\ "error" \in DOMAIN comp[i].out
    /\ probe[map1.results[i]].stage = 1
    /\ comp[j].st = "fulfilled" /\ "value" \in DOMAIN comp[j].out
    /\ probe[map1.results[j]].stage = 2

\* C7: the first stage of a source runs once, in the load pass, however often the host
\* calls getComponents(): never twice, and once for every included source when the load
\* pass has ended.
C7_FirstStageOnce ==
  \A k \in SourceKeys :
    /\ probe[k].calls1 <= 1
    /\ (map1.st = "done" /\ k \in Range(includedSources)) => probe[k].calls1 = 1
    /\ probe[k].calls1 = 1 => k \in Range(map1.results)

\* C7 witness: getComponents() resolved a second time, and the first stage of a
\* two-stage source still ran once.
C7_Witness ==
  /\ Done
  /\ ncalls >= 2
  /\ \E k \in Range(includedSources) : probe[k].two /\ probe[k].calls1 = 1

\* C8 as claimed: a second call of the getter does not call the get stage function
\* again, and both calls yield the same outcome.
C8_Original ==
  /\ \A k \in SourceKeys : probe[k].calls2 <= 1
  /\ (Done /\ ncalls >= 2) => components = prevComponents

\* C8 amended: the getter never calls the first stage again, but every call of the
\* getter of a two-stage source calls its get stage function once more (n resolved calls
\* of getComponents(), n calls of the function); the getter of a one-stage source calls
\* nothing and yields the same outcome on every call.
C8_GetStagePerCall ==
  \A idx \in 1..Len(map1.results) :
    LET k == map1.results[idx]
    IN /\ probe[k].calls1 = 1
       /\ probe[k].calls2 <= ncalls
       /\ Done => probe[k].calls2 = (IF probe[k].two THEN ncalls ELSE 0)
       /\ (Done /\ ncalls >= 2 /\ ~probe[k].two) => components[idx] = prevComponents[idx]

\* C8 witness: after two resolved calls the get stage function of a source has run
\* twice, and the two calls did not yield the same outcome for it.
C8_Witness ==
  /\ Done
  /\ ncalls = 2
  /\ \E idx \in 1..Len(components) :
       /\ probe[components[idx].key].calls2 = 2
       /\ components[idx] # prevComponents[idx]

\* C9: a source whose first stage returns or throws on the spot is called, timed and
\* loaded in one step of loadSource: in every state its sourceLoadPromise is resolved,
\* loadDuration is the time the source itself took, and its getter has been returned.
C9_SyncLoadInOneStep ==
  \A k \in SourceKeys :
    SyncLoad(k) =>
      /\ src[k].st = "resolved"
      /\ src[k].dur = probe[k].len1
      /\ k \in Range(map1.results)

\* C9 witness: a synchronous source took one unit of time and is loaded with that
\* duration while the promise of another source is still pending.
C9_Witness ==
  \E k, other \in SourceKeys :
    /\ SyncLoad(k)
    /\ src[k].dur = 1
    /\ src[other].st = "pending"

\* C10: the duration of an outcome is the time the first stage took, plus, for a
\* two-stage source, the time the get stage took; the time between the two stages does
\* not count.
C10_DurationOfStages ==
  \A idx \in 1..Len(map1.results) :
    comp[idx].st \in {"adopt", "fulfilled"} =>
      LET p == probe[map1.results[idx]]
      IN comp[idx].out.duration = (IF p.two THEN p.len1 + p.len2 ELSE p.len1)

\* C10 witness: the first source loaded at once at time 0, its get stage took one unit
\* and ended at time 2: one unit passed between the stages, and the duration is 1.
C10_Witness ==
  /\ map1.results # <<>>
  /\ comp[1].st = "fulfilled"
  /\ probe[map1.results[1]].two
  /\ probe[map1.results[1]].len1 = 0
  /\ probe[map1.results[1]].len2 = 1
  /\ comp[1].out.duration = 1
  /\ now = 2

\* C11: mapWithBreaks calls the callback once per item in ascending index order and
\* puts the result of item i at position i, wherever the loop was released: at every
\* moment of the load pass the results are those of the items before the loop index,
\* in the items' order, every source among them was called once and no other was
\* called; the get pass has called the getters before its loop index and no other; and
\* the array a finished pass returns has the length of its input.
C11_ResultsByPosition ==
  /\ map1.st # "none" =>
        /\ map1.i \in 1..(Len(includedSources) + 1)
        /\ map1.results = SubSeq(includedSources, 1, map1.i - 1)
        /\ \A k \in SourceKeys : probe[k].calls1 = (IF k \in Range(map1.results) THEN 1 ELSE 0)
  /\ map1.st = "done" => Len(map1.results) = Len(includedSources)
  /\ get.st \in {"run", "wait"} =>
        /\ get.i \in 1..(Len(map1.results) + 1)
        /\ \A idx \in 1..NumSources : (comp[idx].st # "none") <=> (idx < get.i)
  /\ get.st \in {"awaitMap", "awaitAll", "allQueued", "done"} =>
        \A idx \in 1..NumSources : (comp[idx].st # "none") <=> (idx <= Len(map1.results))

\* C11 witness: the load pass was released after every item and returned two results;
\* the get pass is released after its first item.
C11_Witness ==
  /\ loopReleaseInterval = 0
  /\ map1.st = "done"
  /\ map1.results = <<1, 2>>
  /\ get.st = "wait"
  /\ get.i = 2

\* C12 as claimed: the loop is released after an item exactly when the time passed since
\* the last release (or since the pass began) is more than the interval.
C12_Original ==
  /\ (map1.st \in {"run", "wait"} /\ map1.i > 1) =>
        (map1.test.released <=> map1.test.elapsed > loopReleaseInterval)
  /\ (get.st \in {"run", "wait"} /\ get.i > 1) =>
        (get.test.released <=> get.test.elapsed > loopReleaseInterval)

\* C12 amended: the loop is released after an item exactly when the time passed since
\* the last release (or since the pass began) is the interval or more; a released loop
\* waits for the host's message, and a loop that was not released runs on.
C12_ReleaseAtInterval ==
  /\ (map1.st \in {"run", "wait"} /\ map1.i > 1) =>
        /\ map1.test.released <=> map1.test.elapsed >= loopReleaseInterval
        /\ map1.st = "wait" => map1.test.released
        /\ ~map1.test.released => (map1.st = "run" /\ now - map1.last = map1.test.elapsed)
  /\ (get.st \in {"run", "wait"} /\ get.i > 1) =>
        /\ get.test.released <=> get.test.elapsed >= loopReleaseInterval
        /\ get.st = "wait" => get.test.released
        /\ ~get.test.released => (get.st = "run" /\ now - get.last = get.test.elapsed)

\* C12 witness: the interval is 1, the first item of the load pass took no time and the
\* loop went on; the second took one unit, exactly the interval, and the loop is released.
C12_Witness ==
  /\ loopReleaseInterval = 1
  /\ map1.st = "wait"
  /\ map1.i = 3
  /\ map1.test.elapsed = 1
  /\ now = 1

\* C13: the two passes are ordered. The "get" stage of a source is called only after the
\* host has called getComponents(), after the load pass has called the first stage of
\* every included source, and after the source's own first stage has produced a "get"
\* stage function; and the get pass calls the getters in registration order.
C13_TwoOrderedPasses ==
  /\ \A k \in SourceKeys :
        probe[k].calls2 > 0 =>
          /\ ncalls >= 1
          /\ map1.st = "done"
          /\ \A j \in Range(ExpectedKeys) : probe[j].calls1 = 1
          /\ probe[k].two
          /\ src[k].st = "resolved" /\ src[k].fin = "get"
  /\ get.st \notin {"none", "awaitGetters"} =>
        /\ map1.st = "done"
        /\ map1.results = ExpectedKeys
        /\ \A idx \in 1..NumSources :
              comp[idx].st # "none" => \A before \in 1..(idx - 1) : comp[before].st # "none"
  /\ \A n \in 1..Len(micro) :
        micro[n].t \in {"finalize", "getCb", "adopt"} => get.st \notin {"none", "awaitGetters"}

\* C13 witness: the "get" stage of the second source has been called while the promise
\* the first stage of the first source returned is still pending.
C13_Witness ==
  /\ probe[2].calls2 = 1
  /\ probe[1].calls1 = 1
  /\ src[1].st = "pending"

\* C14: with the event loop scheduled fairly and every promise of a source settling at
\* last, a call of getComponents() leads to its promise being resolved, whichever
\* sources fail and in whatever order they settle.
C14_RunCompletes == (get.st = "awaitGetters") ~> Done

\* C14 witness: getComponents() resolved in a run where the promise of a first stage
\* rejected and the promise of another source's "get" stage settled after it.
C14_Witness ==
  /\ Done
  /\ \E k, j \in Range(includedSources) :
       /\ probe[k].ret1 = "promise" /\ probe[k].stage = 1 /\ probe[k].kind = "error"
       /\ probe[j].ret2 = "promise"

\* A components object has been canonicalized
Canonicalized == canon.st \in {"one", "two"}

Entry(key, out) == [key |-> key, out |-> out]
Value(v) == [value |-> v, duration |-> 0]
Failed == [error |-> FirstError, duration |-> 0]

\* The entries of an object in ascending order of their keys
Ascending(object) ==
  LET order == CHOOSE f \in Orders(Len(object)) :
                 \A i, j \in 1..Len(object) : i < j => lessThan(object[f[i]].key, object[f[j]].key)
  IN [i \in 1..Len(object) |-> object[order[i]]]

\* The record of an entry: its key, escaped, a colon and its value
Record(entry) == escape(entry.key) \o <<":">> \o canonicalValue(entry.out)

\* Records with a delimiter between one and the next
RECURSIVE Joined(_)
Joined(entries) ==
  IF entries = <<>> THEN <<>>
  ELSE IF Len(entries) = 1 THEN Record(entries[1])
  ELSE Record(entries[1]) \o <<"|">> \o Joined(Tail(entries))

\* C15: the canonical string is one record name:value per component, the records in
\* ascending order of the names and joined by '|'; it neither begins nor ends with the
\* delimiter; the empty object gives the empty string, and {b: 2, a: 1} gives a:1|b:2.
C15_SortedRecords ==
  Canonicalized =>
    /\ canon.result = Joined(Ascending(canon.components))
    /\ canon.components = <<>> => canon.result = <<>>
    /\ canon.result # <<>> =>
         /\ Head(canon.result) # "|"
         /\ canon.result[Len(canon.result)] # "|"
    /\ canon.components = <<Entry(<<"b">>, Value(Number(2))), Entry(<<"a">>, Value(Number(1)))>> =>
         canon.result = <<"a", ":", "1", "|", "b", ":", "2">>

\* C15 witness: {b: 2, a: 1} has been canonicalized to a:1|b:2.
C15_Witness ==
  /\ canon.st = "one"
  /\ canon.components = <<Entry(<<"b">>, Value(Number(2))), Entry(<<"a">>, Value(Number(1)))>>
  /\ canon.result = <<"a", ":", "1", "|", "b", ":", "2">>

\* C16: a failed component is rendered as the token error whatever its error is: an
\* object that differs from another only in the errors of its failed components has the
\* same canonical string, the record of a single failed component is name:error, and an
\* object where a failed and b is 5 gives a:error|b:5.
C16_ErrorToken ==
  /\ (canon.st = "two" /\ canon.how = "refail") => canon.otherResult = canon.result
  /\ (Canonicalized /\ Len(canon.components) = 1 /\ "error" \in DOMAIN canon.components[1].out) =>
       canon.result = escape(canon.components[1].key) \o <<":", "e", "r", "r", "o", "r">>
  /\ (Canonicalized /\ canon.components = <<Entry(<<"a">>, Failed), Entry(<<"b">>, Value(Number(5)))>>) =>
       canon.result = <<"a", ":", "e", "r", "r", "o", "r", "|", "b", ":", "5">>

\* C16 witness: a failed with one error and then with another, b is 5, and both objects
\* were canonicalized to a:error|b:5.
C16_Witness ==
  /\ canon.st = "two"
  /\ canon.how = "refail"
  /\ canon.components = <<Entry(<<"a">>, Failed), Entry(<<"b">>, Value(Number(5)))>>
  /\ canon.other[1].out.error # FirstError
  /\ canon.otherResult = <<"a", ":", "e", "r", "r", "o", "r", "|", "b", ":", "5">>

\* How often a character stands in a string without a backslash before it
RECURSIVE unescaped(_, _)
unescaped(str, ch) ==
  IF str = <<>> THEN 0
  ELSE IF Head(str) = "\\" THEN (IF Len(str) = 1 THEN 0 ELSE unescaped(Tail(Tail(str)), ch))
  ELSE (IF Head(str) = ch THEN 1 ELSE 0) + unescaped(Tail(str), ch)

\* C17: in the canonical string the ':', '|' and '\' of the names and of the rendered
\* values are escaped with a backslash: an unescaped ':' stands only between a name and
\* its value, one per record, and an unescaped '|' only between two records.
C17_DelimitersEscaped ==
  Canonicalized =>
    /\ unescaped(canon.result, ":") = Len(canon.components)
    /\ unescaped(canon.result, "|") = (IF canon.components = <<>> THEN 0 ELSE Len(canon.components) - 1)

\* The (name, value-or-error) pairs of an object
Pairs(object) ==
  {<<object[i].key,
     IF "error" \in DOMAIN object[i].out THEN <<"error", object[i].out.error>>
     ELSE <<"value", object[i].out.value>>>> : i \in 1..Len(object)}

\* C18: the canonical string depends on the (name, value-or-error) pairs of the object
\* only: two objects with the same pairs have the same canonical string, whatever the
\* order in which their keys were inserted and whatever their durations.
C18_OrderIndependent ==
  (canon.st = "two" /\ Pairs(canon.other) = Pairs(canon.components)) =>
    canon.otherResult = canon.result

\* C18 witness: two objects of two components with the same pairs, the keys inserted in
\* the opposite order and the durations different, have been canonicalized.
C18_Witness ==
  /\ canon.st = "two"
  /\ canon.how = "reinsert"
  /\ Len(canon.components) = 2
  /\ canon.other[1].key = canon.components[2].key
  /\ canon.other[1].out.duration # canon.components[2].out.duration
  /\ Pairs(canon.other) = Pairs(canon.components)
  /\ canon.otherResult = canon.result

\* The 64-bit value [high, low] of the code as a number of the reference
numberOf(v) ==
  <<v[2][2] % 256, v[2][2] \div 256, v[2][1] % 256, v[2][1] \div 256,
    v[1][2] % 256, v[1][2] \div 256, v[1][1] % 256, v[1][1] \div 256>>

HelloDigest ==
  <<"c", "b", "d", "8", "a", "7", "b", "3", "4", "1", "b", "d", "9", "b", "0", "2", "5",
  "b", "1", "e", "9", "0", "6", "a", "4", "8", "a", "e", "1", "d", "1", "9">>
QuickBrownFoxDigest ==
  <<"e", "3", "4", "b", "b", "c", "7", "b", "b", "c", "0", "7", "1", "b", "6", "c", "7",
  "a", "4", "3", "3", "c", "a", "9", "c", "4", "9", "a", "9", "3", "4", "7">>
ZeroDigest == [n \in 1..32 |-> "0"]

\* C19: x64hash128(input) with seed 0 is the MurmurHash3 x64-128 digest of the UTF-8
\* bytes of input: after every full block, after the tail, after the length, after
\* fmix and at the return h1 and h2 are the reference's two 64-bit numbers (computed
\* modulo 2^64), the returned string is the reference's digest, the empty string gives
\* 32 zeros and the two strings with published digests give those digests.
C19_MurmurDigest ==
  /\ (hash.st \in {"loop", "fmix", "last", "returned"} \/ (hash.st = "switch" /\ hash.c = 0))
       => numberOf(hash.h1) = hash.ref.h1 /\ numberOf(hash.h2) = hash.ref.h2
  /\ hash.st = "returned"
       => /\ hash.result = murmurDigest(hash.ref)
          /\ hash.input = <<>> => hash.result = ZeroDigest
          /\ hash.input = Hello => hash.result = HelloDigest
          /\ hash.input = QuickBrownFox => hash.result = QuickBrownFoxDigest

\* A string of several full blocks and a tail of 15 bytes, some of them of characters
\* of more than one byte, has been hashed
C19_Witness ==
  /\ hash.st = "returned"
  /\ Len(hash.input) < Len(encode(hash.input))
  /\ Len(encode(hash.input)) > 32
  /\ Len(encode(hash.input)) % 16 = 15
  /\ hash.result = murmurDigest(hash.ref)
  /\ hash.result # ZeroDigest

HexDigits == {"0", "1", "2", "3", "4", "5", "6", "7", "8", "9", "a", "b", "c", "d", "e", "f"}

\* C20: x64hash128 returns 32 characters, each a lowercase hexadecimal digit, that is
\* four words of 8 digits each, padded with zeros, also when a word's top bit is set.
C20_ThirtyTwoHexDigits ==
  hash.st = "returned"
    => /\ Len(hash.result) = 32
       /\ \A n \in 1..32 : hash.result[n] \in HexDigits

\* A hash was returned with a word that needed a zero in front and a word whose top bit
\* is set
C20_Witness ==
  /\ hash.st = "returned"
  /\ Len(hash.result) = 32
  /\ \E n \in {1, 9, 17, 25} : hash.result[n] = "0"
  /\ \E n \in {1, 9, 17, 25} : hash.result[n] \in {"8", "9", "a", "b", "c", "d", "e", "f"}

\* C21: for one result object, over any sequence of reads and writes of visitorId,
\* hashComponents runs at most once, not before the first read, and every read returns
\* what the first read returned.
C21_HashedOnce ==
  lazy.st \in {"made", "hashing"}
    => /\ lazy.hashed <= 1
       /\ lazy.hashed = 1 <=> (lazy.st = "hashing" \/ lazy.reads # <<>>)
       /\ \A n \in 1..Len(lazy.reads) : lazy.reads[n] = lazy.reads[1]

\* A browser on a mobile system, as the code tells it: Android, or WebKit that is not
\* desktop WebKit
Mobile(browser) == browser.isAndroid \/ (browser.isWebKit /\ ~browser.isDesktopWebKit)

\* C22: getConfidence returns a score of the fixed table, between 0 and 1: Android 0.4;
\* WebKit 0.5 when desktop and not Safari 17 or newer, else 0.3; otherwise 0.6 for a
\* platform value that starts with Win, 0.5 for one that starts with Mac and 0.7 for
\* any other, a failed platform component included. A mobile browser scores at most
\* 0.4, below Windows and macOS, and no score is above that of an unrecognized platform.
C22_ConfidenceTable ==
  conf.st = "returned"
    => LET b == conf.browser
           c == conf.platform
           failed == "error" \in DOMAIN c
       IN /\ conf.score \in {3, 4, 5, 6, 7}
          /\ 0 <= conf.score /\ conf.score <= 10
          /\ b.isAndroid => conf.score = 4
          /\ ~b.isAndroid /\ b.isWebKit
               => conf.score = (IF b.isDesktopWebKit /\ ~(b.isWebKit616OrNewer /\ b.isSafariWebKit)
                                THEN 5 ELSE 3)
          /\ ~b.isAndroid /\ ~b.isWebKit /\ failed => conf.score = 7
          /\ ~b.isAndroid /\ ~b.isWebKit /\ ~failed
               => conf.score = (IF Len(c.value) >= 3 /\ c.value[1] = "W" /\ c.value[2] = "i"
                                   /\ c.value[3] = "n" THEN 6
                                ELSE IF Len(c.value) >= 3 /\ c.value[1] = "M"
                                        /\ c.value[2] = "a" /\ c.value[3] = "c" THEN 5
                                ELSE 7)
          /\ Mobile(b) => conf.score <= 4
          /\ conf.score <= 7

\* getConfidence has returned for a browser that is neither Android nor WebKit and whose
\* platform component failed
C22_Witness ==
  /\ conf.st = "returned"
  /\ ~conf.browser.isAndroid
  /\ ~conf.browser.isWebKit
  /\ "error" \in DOMAIN conf.platform
  /\ conf.score = 7

\* A call of getComponents() is in progress
Collecting == get.st \in {"awaitGetters", "run", "wait", "awaitMap", "awaitAll", "allQueued"}

\* C23: with the event loop scheduled fairly, and whether or not the promises that
\* sources returned ever settle, loadSources leads to the first stage of every
\* included source having been called, a call of getComponents() leads to the end
\* of the getter pass, and a source whose first stage produced a continuation has
\* the continuation called during a call of getComponents(); a first stage is
\* never called twice.
C23_NoWaitingForPromises ==
  /\ [](\A k \in SourceKeys : probe[k].calls1 <= 1)
  /\ (phase = "loaded") ~> (\A k \in Range(includedSources) : probe[k].calls1 = 1)
  /\ (get.st = "awaitGetters") ~> (get.st \notin {"awaitGetters", "run", "wait"})
  /\ \A k \in SourceKeys :
       (Collecting /\ src[k].fin = "get") ~> (probe[k].calls2 >= 1)

\* The continuation of the second source has been called while the promise that the
\* continuation of the first source returned is pending, the first stage of the first
\* source having returned a promise too
C23_Witness ==
  /\ Len(includedSources) = 2
  /\ probe[includedSources[1]].ret1 = "promise"
  /\ comp[1].st = "getPending"
  /\ probe[includedSources[2]].calls2 = 1

\* C24: after finalize() has been called, resultPromise settles at last
C24_SettlesAfterFinalize ==
  (audio.st = "started" /\ audio.isFinalized) ~> (audio.resultPromise # "pending")

\* C25: resultPromise is rejected with 'suspended' or 'timeout' only after finalize()
\* was called, with 'suspended' only after three attempts found the context suspended
\* while the document was visible, with 'timeout' only after an attempt found the
\* context running; before finalize() is called an attempt that finds the context
\* suspended leaves a retry scheduled.
C25_RejectsOnlyFinalized ==
  audio.st = "started"
    => /\ audio.resultPromise \in {"suspended", "timeout"} => audio.tries.finalized
       /\ audio.resultPromise = "suspended" => audio.tries.visible >= 3
       /\ audio.resultPromise = "timeout" => audio.tries.running
       /\ (~audio.tries.finalized /\ ~audio.tries.running /\ audio.resultPromise = "pending")
            => audio.retryTimer

\* resultPromise was rejected with 'suspended' at the third counted attempt, after
\* finalize() was called
C25_Witness ==
  /\ audio.st = "started"
  /\ audio.resultPromise = "suspended"
  /\ audio.renderTryCount = 3
  /\ audio.tries.visible = 3
  /\ audio.tries.finalized

\* A frame with a side that is a number other than 0
NotNullFrame(f) == f # Undefined /\ \E i \in 1..4 : f[i] \notin {Null, Number(0)}

\* C26: screenFrameBackup is undefined or a frame that is not null; once a reading has
\* found a frame that is not null the backup is set; and a getter call made after that
\* returns a frame that is not null: the current frame if that is not null, otherwise
\* the backup, which it leaves as it is.
C26_BackupNeverNull ==
  /\ [](screen.st # "none"
          => /\ screen.screenFrameBackup # Undefined => NotNullFrame(screen.screenFrameBackup)
             /\ screen.seen => screen.screenFrameBackup # Undefined
             /\ screen.after => NotNullFrame(screen.returned))
  /\ [][(screen.st = "watching" /\ screen.seen /\ screen'.called = screen.called + 1)
          => IF NotNullFrame(screen.frame)
             THEN screen'.returned = screen.frame /\ screen'.screenFrameBackup = screen.frame
             ELSE /\ screen'.returned = screen.screenFrameBackup
                  /\ screen'.screenFrameBackup = screen.screenFrameBackup]_vars

\* A getter call made after a frame that is not null was seen has returned the backup
\* while the current frame is null
C26_Witness ==
  /\ screen.st = "watching"
  /\ screen.after
  /\ ~NotNullFrame(screen.frame)
  /\ screen.returned = screen.screenFrameBackup
  /\ screen.called >= 2

\* C27: while the action runs the iframe is attached, has finished loading (its load
\* event was fired or its document is complete) and has a body; when withIframe's
\* promise is settled the iframe is not attached; and no ready-state timer is set once
\* the load promise is settled.
C27_IframeLifetime ==
  iframe.st = "called"
    => /\ iframe.pc = "action"
            => /\ iframe.attached
               /\ iframe.loadFired \/ iframe.readyState = "complete"
               /\ iframe.body
       /\ iframe.outcome # "pending" => ~iframe.attached
       /\ iframe.pc = "settled" <=> iframe.outcome # "pending"
       /\ ~iframe.late

\* withIframe was rejected because the load failed; the iframe is removed, its document
\* became complete afterwards, and no timer is left
C27_Witness ==
  /\ iframe.st = "called"
  /\ iframe.outcome = "rejected"
  /\ iframe.loadPromise = "rejected"
  /\ ~iframe.attached
  /\ ~iframe.timer
  /\ iframe.readyState = "complete"

\* The test elements of the n-th filter that have no offsetParent
Hidden(n) ==
  {k \in 1..Len(allSelectors) :
     /\ k \notin blockers.offsetParent
     /\ \E j \in 1..Len(Filters[n].selectors) : Filters[n].selectors[j] = allSelectors[k]}

Transformed(given, got) ==
  /\ got.k = given.k
  /\ given.k = "value" => got.v = given.v + transform.shift
  /\ given.k = "promise"
       => /\ got.to.k = given.to.k
          /\ given.to.k = "value" => got.to.v = given.to.v + transform.shift

\* The function the source leads to, if it leads to one
StageTwo(result) ==
  IF result.k = "function" THEN result
  ELSE IF result.k = "promise" /\ result.to.k = "function" THEN result.to
  ELSE Undefined

\* C29: the transformed source returns, throws or promises what the source does, with
\* transformValue applied once to a final value; a function the source leads to stays a
\* function in the same place, and its call returns, throws or promises what the call
\* of the source's function does, with transformValue applied once to the value.
C29_KeepsShape ==
  transform.st = "made"
    => /\ transform.pc # "made" => Transformed(transform.source, transform.loadResult)
       /\ (transform.pc # "made" /\ StageTwo(transform.source) # Undefined)
            => /\ StageTwo(transform.loadResult) # Undefined
               /\ Transformed(StageTwo(transform.source).returns,
                              StageTwo(transform.loadResult).returns)
       /\ transform.calls > 0
            => Transformed(StageTwo(transform.source).returns, transform.getResult)

\* The source promised a function whose call promises a value; the function of the
\* transformed source was called twice
C29_Witness ==
  /\ transform.st = "made"
  /\ transform.source.k = "promise"
  /\ transform.source.to.k = "function"
  /\ transform.source.to.returns.k = "promise"
  /\ transform.source.to.returns.to.k = "value"
  /\ transform.calls = 2
  /\ transform.getResult.to.v = transform.source.to.returns.to.v + transform.shift

\* The (name, value-or-error) pairs of an object, whatever the errors are
Outcomes(object) ==
  {<<object[i].key,
     IF "error" \in DOMAIN object[i].out THEN <<"error">> ELSE <<"value", object[i].out.value>>>> :
     i \in 1..Len(object)}

\* No value of the object is NaN
NoNaN(object) ==
  \A i \in 1..Len(object) : "value" \in DOMAIN object[i].out => object[i].out.value # NaN

\* C30 as stated: two objects that differ in a (name, value-or-error) pair have
\* different canonical strings.
C30_Original ==
  (canon.st = "two" /\ canon.how = "another" /\ Outcomes(canon.other) # Outcomes(canon.components))
    => canon.otherResult # canon.result

\* C30: two objects without NaN values that differ in a (name, value-or-error) pair
\* have different canonical strings, also when names and strings hold ':', '|', '\' or
\* '"', when a string is the text error, and when they have different numbers of records.
C30_InjectiveOnContent ==
  (/\ canon.st = "two"
   /\ canon.how = "another"
   /\ Outcomes(canon.other) # Outcomes(canon.components)
   /\ NoNaN(canon.components)
   /\ NoNaN(canon.other))
    => canon.otherResult # canon.result

\* The object where a is the string error and the object where a failed were
\* canonicalized, to different strings
C30_Witness ==
  /\ canon.st = "two"
  /\ canon.how = "another"
  /\ canon.components = <<Entry(<<"a">>, Value(String(<<"e", "r", "r", "o", "r">>)))>>
  /\ canon.other = <<Entry(<<"a">>, Failed)>>
  /\ canon.result = <<"a", ":", "\"", "e", "r", "r", "o", "r", "\"">>
  /\ canon.otherResult = <<"a", ":", "e", "r", "r", "o", "r">>

====
